---- MODULE Spec2Model ----
(***************************************************************************)
(* Model of the error-replay debug adapter                                 *)
(* (packages/adapter/src/index.ts): the ReplayRuntime cursor machine, its  *)
(* breakpoint matcher and variable cache, and the ErrorReplaySession       *)
(* request handlers with the responses and events they send.               *)
(*                                                                         *)
(* Conventions.                                                            *)
(*  - A path string p is the sequence p.split('/'); undefined and '' are   *)
(*    the empty sequence.  "/a/x.ts" is <<"", "a", "x.ts">>.               *)
(*  - Internal frame indices and the cursor are 0-based as in the code;    *)
(*    the frame at internal index i is frames[i + 1].                      *)
(*  - A null snapshot identifier is NoSnap, an absent number is NoNum.     *)
(***************************************************************************)
EXTENDS Integers, Sequences, FiniteSets, Bags, TLC

VARIABLES
    runtime,                 \* ErrorReplaySession.runtime (NoRuntime = undefined)
    pendingBreakpoints,      \* ErrorReplaySession._pendingBreakpoints, in insertion order
    startLineHint,           \* ErrorReplaySession.startLineHint
    startSourcePathHint,     \* ErrorReplaySession.startSourcePathHint
    terminationMessageSent,  \* ErrorReplaySession.terminationMessageSent
    errorSummary,            \* ErrorReplaySession.errorSummary
    variableHandles,         \* ErrorReplaySession._variableHandles, handle 1000 + i at i + 1
    pending,                 \* handlers suspended at an await on the data source (a bag)
    out,                     \* responses and events sent by the last step, in order
    last,                    \* the last call made and what it returned; arg is the
                             \* start line of a launch, the handler a fetch resumed
    summaryCount,            \* history: summary output lines sent so far
    launchFailed,            \* history: some launch has been answered with an error
    nextRun,                 \* history: consecutive next requests since a launch
                             \* without a start line (-1 outside such a run)
    loadedIds                \* history: snapshot ids loadVariables was called with

(***************************************************************************)
(* Bounds                                                                  *)
(***************************************************************************)
MaxFrames == 3

(***************************************************************************)
(* Values                                                                  *)
(***************************************************************************)
NoSnap == "null"
NoNum == -99
NoPath == <<>>
NoReason == "undefined"

Range(s) == {s[i] : i \in DOMAIN s}

\* Map.set on a map kept as a function
MapSet(m, k, v) == [x \in (DOMAIN m) \cup {k} |-> IF x = k THEN v ELSE m[x]]

(***************************************************************************)
(* path.normalize (posix)                                                  *)
(***************************************************************************)
RECURSIVE normalizeString(_, _, _)
normalizeString(segs, allowAboveRoot, acc) ==
    IF segs = <<>> THEN acc
    ELSE LET s == Head(segs)
             rest == Tail(segs)
         IN  IF s = "" \/ s = "." THEN normalizeString(rest, allowAboveRoot, acc)
             ELSE IF s = ".." THEN
                 IF acc # <<>> /\ acc[Len(acc)] # ".."
                 THEN normalizeString(rest, allowAboveRoot, SubSeq(acc, 1, Len(acc) - 1))
                 ELSE IF allowAboveRoot
                      THEN normalizeString(rest, allowAboveRoot, Append(acc, ".."))
                      ELSE normalizeString(rest, allowAboveRoot, acc)
             ELSE normalizeString(rest, allowAboveRoot, Append(acc, s))

pathNormalize(p) ==
    IF p = <<>> \/ p = <<"">> THEN <<".">>
    ELSE LET isAbsolute == p[1] = ""
             trailingSeparator == p[Len(p)] = ""
             body == normalizeString(p, ~isAbsolute, <<>>)
         IN  IF body = <<>>
             THEN IF isAbsolute THEN <<"", "">>
                  ELSE IF trailingSeparator THEN <<".", "">> ELSE <<".">>
             ELSE (IF isAbsolute THEN <<"">> ELSE <<>>) \o body
                  \o (IF trailingSeparator THEN <<"">> ELSE <<>>)

\* maybePath.startsWith('file://')
startsWithFileUrl(p) == Len(p) >= 3 /\ p[1] = "file:" /\ p[2] = ""

\* ReplayRuntime.normalizeFilePath; NoPath stands for undefined
normalizeFilePath(maybePath) ==
    IF maybePath = <<>> \/ maybePath = <<"">> THEN NoPath
    ELSE IF startsWithFileUrl(maybePath)
         THEN pathNormalize(SubSeq(maybePath, 3, Len(maybePath)))
         ELSE pathNormalize(maybePath)

(***************************************************************************)
(* Recorded values.  A JavaScript value is [t, s, n]: its type tag, its    *)
(* text when it is a string and its number when it is a number.            *)
(***************************************************************************)
Undef == [t |-> "undefined", s |-> "", n |-> 0]
Null == [t |-> "null", s |-> "", n |-> 0]
Str(text) == [t |-> "string", s |-> text, n |-> 0]
Num(n) == [t |-> "number", s |-> "", n |-> n]
Bool(b) == [t |-> "boolean", s |-> IF b THEN "true" ELSE "false", n |-> 0]
NaN == [t |-> "number", s |-> "NaN", n |-> 0]

\* Number(text) on the texts the recorded payloads use
NumberOf(text) ==
    CASE text = "1" -> Num(1)
      [] text = "2" -> Num(2)
      [] text = "42" -> Num(42)
      [] text = "" -> Num(0)
      [] OTHER -> NaN

\* coerceValue without its test for the literal `null`
coerceValue_NoNull(valuePreview, type) ==
    IF valuePreview = Undef THEN type
    ELSE IF type = Str("number")
         THEN LET n == NumberOf(valuePreview.s)
              IN  IF n = NaN THEN valuePreview ELSE n
    ELSE IF type = Str("boolean") /\ valuePreview = Str("true") THEN Bool(TRUE)
    ELSE IF type = Str("boolean") /\ valuePreview = Str("false") THEN Bool(FALSE)
    ELSE valuePreview

\* coerceValue(valuePreview, type); both are Undef or a string value
coerceValue(valuePreview, type) ==
    IF valuePreview = Undef THEN type
    ELSE IF type = Str("number")
         THEN LET n == NumberOf(valuePreview.s)
              IN  IF n = NaN THEN valuePreview ELSE n
    ELSE IF type = Str("boolean") /\ valuePreview = Str("true") THEN Bool(TRUE)
    ELSE IF type = Str("boolean") /\ valuePreview = Str("false") THEN Bool(FALSE)
    ELSE IF valuePreview = Str("null") THEN Null
    ELSE valuePreview

\* VariableNode; a VariableMap is the sequence of its [name, node] entries
Node(type, value, fields) == [type |-> type, value |-> value, fields |-> fields]
Entry(name, node) == [name |-> name, node |-> node]

Has(record, field) == field \in DOMAIN record
IndexKey(i) == CASE i = 0 -> "0" [] i = 1 -> "1" [] i = 2 -> "2" [] i = 3 -> "3"
                 [] OTHER -> "4"

\* the array index a property key spells, -1 when it spells none
IndexOfKey(key) ==
    IF \E i \in 0..4 : IndexKey(i) = key
    THEN CHOOSE i \in 0..4 : IndexKey(i) = key
    ELSE -1

\* fields[key] = node on a plain object, as Object.entries lists it afterwards:
\* a key the object has keeps its place, a new array-index key goes among the
\* index keys in ascending order ahead of every other key, any other new key
\* goes last
setField(fields, key, node) ==
    IF \E i \in DOMAIN fields : fields[i].name = key
    THEN [i \in DOMAIN fields |->
             IF fields[i].name = key THEN Entry(key, node) ELSE fields[i]]
    ELSE IF IndexOfKey(key) >= 0
    THEN LET ahead == {i \in DOMAIN fields :
                          /\ IndexOfKey(fields[i].name) >= 0
                          /\ IndexOfKey(fields[i].name) < IndexOfKey(key)}
             n == Cardinality(ahead)
         IN  SubSeq(fields, 1, n) \o <<Entry(key, node)>>
                 \o SubSeq(fields, n + 1, Len(fields))
    ELSE Append(fields, Entry(key, node))

\* payload.fields[name]?.value, Undef when there is none
fieldValue(payload, name) ==
    IF \E i \in DOMAIN payload.fields :
           payload.fields[i].name = name /\ Has(payload.fields[i].payload, "value")
    THEN Str(payload.fields[CHOOSE i \in DOMAIN payload.fields :
                                payload.fields[i].name = name].payload.value)
    ELSE Undef

\* ReplayRuntime.extractKeyFromPayload; idx counts from 0
extractKeyFromPayload(payload, idx) ==
    IF Has(payload, "absent") THEN IndexKey(idx)
    ELSE IF Has(payload, "value") THEN payload.value
    ELSE IF Has(payload, "fields")
    THEN LET id == IF fieldValue(payload, "id") # Undef THEN fieldValue(payload, "id")
                   ELSE IF fieldValue(payload, "name") # Undef
                   THEN fieldValue(payload, "name")
                   ELSE fieldValue(payload, "key")
         IN  IF id # Undef THEN id.s ELSE IndexKey(idx)
    ELSE IndexKey(idx)

\* ReplayRuntime.toVariableNode / toVariableMap.  A VariablePayload is a
\* record holding just the properties it has; [absent |-> TRUE] is undefined.
\* payload.entries is the sequence of its <<keyPayload, valuePayload>> pairs.
RECURSIVE toVariableNode(_)
RECURSIVE entryFields(_, _, _)
\* the forEach over payload.entries, from the idx-th pair on
entryFields(entries, idx, fields) ==
    IF idx > Len(entries) THEN fields
    ELSE entryFields(entries, idx + 1,
             setField(fields, extractKeyFromPayload(entries[idx][1], idx - 1),
                      toVariableNode(entries[idx][2])))

toVariableNode(payload) ==
    LET type == IF Has(payload, "type") THEN Str(payload.type) ELSE Undef
        typeOr(default) == IF type = Undef THEN Str(default) ELSE type
    IN  IF Has(payload, "absent") THEN Node(Undef, Undef, <<>>)
        ELSE IF Has(payload, "isNull") /\ payload.isNull
             THEN Node(typeOr("null"), Null, <<>>)
        ELSE IF Has(payload, "value")
             THEN Node(type, coerceValue(Str(payload.value), type), <<>>)
        ELSE IF Has(payload, "elements")
             THEN Node(typeOr("array"), Undef,
                       [i \in DOMAIN payload.elements |->
                           Entry(IndexKey(i - 1), toVariableNode(payload.elements[i]))])
        ELSE IF Has(payload, "entries")
             THEN Node(typeOr("map"), Undef, entryFields(payload.entries, 1, <<>>))
        ELSE IF Has(payload, "fields")
             THEN Node(typeOr("object"), Undef,
                       [i \in DOMAIN payload.fields |->
                           Entry(payload.fields[i].name,
                                 toVariableNode(payload.fields[i].payload))])
        ELSE Node(type, Undef, <<>>)

toVariableMap(record) ==
    [i \in DOMAIN record |-> Entry(record[i].name, toVariableNode(record[i].payload))]

EmptyBundle == [locals |-> <<>>, arguments |-> <<>>]

\* ReplayRuntime.normalizeVariables
normalizeVariables(variables) ==
    IF Has(variables, "absent") THEN EmptyBundle
    ELSE [locals |-> toVariableMap(IF Has(variables, "locals") THEN variables.locals ELSE <<>>),
          arguments |-> toVariableMap(IF Has(variables, "arguments")
                                      THEN variables.arguments ELSE <<>>)]

\* what an await hands on when the awaited call threw
Thrown == [thrown |-> TRUE]

\* mutant: no try/catch around loadVariables, a rejection goes on to the caller
fetchVariables_NoCatch(outcome) ==
    IF outcome.rejected THEN Thrown ELSE normalizeVariables(outcome.value)

\* ReplayRuntime.fetchVariables once loadVariables has settled
fetchVariables(outcome) ==
    IF outcome.rejected THEN EmptyBundle ELSE normalizeVariables(outcome.value)

\* mutant: the cache is never consulted
isCached_Never(rt, snapshotId) == FALSE

\* the cache test of ReplayRuntime.getOrLoadVariables
isCached(rt, snapshotId) == snapshotId \in DOMAIN rt.variablesCache

\* mutant: an empty bundle is not kept, and drops the entry it would replace
cacheSet_DropEmpty(rt, snapshotId, variables) ==
    IF variables = EmptyBundle
    THEN [rt EXCEPT !.variablesCache =
                 [x \in (DOMAIN @) \ {snapshotId} |-> @[x]]]
    ELSE [rt EXCEPT !.variablesCache = MapSet(@, snapshotId, variables)]

\* variablesCache.set
cacheSet(rt, snapshotId, variables) ==
    [rt EXCEPT !.variablesCache = MapSet(@, snapshotId, variables)]

PathText(p) == IF p = <<"", "a", "x.ts">> THEN "/a/x.ts" ELSE ""

\* ReplayRuntime.getMeta
getMeta(rt, snapshotId) ==
    << Entry("snapshotId", Node(Str("string"),
                                Str(IF snapshotId = NoSnap THEN "n/a" ELSE snapshotId), <<>>)),
       Entry("traceId", Node(Str("string"), Str(""), <<>>)),
       Entry("spanId", Node(Str("string"), Str(""), <<>>)),
       Entry("sourceObjectUri", Node(Str("string"), Str(PathText(rt.sourceObjectUri)), <<>>)) >>

\* record[name], NoNode when the record has no such own property
NoNode == Node(Str("<no such property>"), Undef, <<>>)
Lookup(record, name) ==
    IF \E i \in DOMAIN record : record[i].name = name
    THEN record[CHOOSE i \in DOMAIN record : record[i].name = name].node
    ELSE NoNode

\* the property names every plain object inherits from Object.prototype, and
\* what reading one yields: a function (for __proto__ the prototype object)
\* that has no property type, value or fields
PrototypeNames ==
    {"constructor", "__defineGetter__", "__defineSetter__", "hasOwnProperty",
     "__lookupGetter__", "__lookupSetter__", "isPrototypeOf", "propertyIsEnumerable",
     "toString", "valueOf", "__proto__", "toLocaleString"}
Inherited == Node(Undef, Undef, <<>>)

\* record[name] as a plain property read: own properties first, then the
\* prototype chain
Read(record, name) ==
    IF Lookup(record, name) # NoNode THEN Lookup(record, name)
    ELSE IF name \in PrototypeNames THEN Inherited
    ELSE NoNode

(***************************************************************************)
(* ReplayRuntime                                                           *)
(***************************************************************************)
NoRuntime == [frames |-> <<>>, breakpoints |-> <<>>, cursor |-> -1,
              variablesCache |-> <<>>, sourceObjectUri |-> <<>>, exists |-> FALSE]

Reverse(s) == [i \in 1..Len(s) |-> s[Len(s) + 1 - i]]

\* ReplayRuntime.buildFrames: a raw frame is [file, line, snapshotId]
normalizeFrame(frame, idx) ==
    [id |-> idx,
     file |-> normalizeFilePath(frame.file),
     line |-> IF frame.line # NoNum THEN frame.line + 1 ELSE 1,
     snapshotId |-> frame.snapshotId]

buildFrames(frames) ==
    Reverse([i \in 1..Len(frames) |-> normalizeFrame(frames[i], i - 1)])

\* findIndex over a 1-based sequence, answering a 0-based index or -1
findIndex(s, P(_)) ==
    IF \E i \in 1..Len(s) : P(s[i])
    THEN (CHOOSE i \in 1..Len(s) : P(s[i]) /\ \A j \in 1..(i - 1) : ~P(s[j])) - 1
    ELSE -1

\* mutant: the index found in the reversed list is not mapped back
findInitialFrame_Unmapped(frames) ==
    IF Len(frames) = 0 THEN 0
    ELSE LET hasSnapshot(f) == f.snapshotId # NoSnap
             idx == findIndex(Reverse(frames), hasSnapshot)
         IN  IF idx >= 0 THEN idx ELSE Len(frames) - 1

\* ReplayRuntime.findInitialFrame
findInitialFrame(frames) ==
    IF Len(frames) = 0 THEN 0
    ELSE LET hasSnapshot(f) == f.snapshotId # NoSnap
             idx == findIndex(Reverse(frames), hasSnapshot)
         IN  IF idx >= 0 THEN Len(frames) - 1 - idx ELSE Len(frames) - 1

\* mutant: the constructor starts at the crash site without looking for a
\* snapshot
NewRuntime_AtCrashSite(stackTrace, sourceObjectUri) ==
    LET fs == buildFrames(stackTrace)
    IN  [frames |-> fs, breakpoints |-> <<>>,
         cursor |-> IF Len(fs) = 0 THEN 0 ELSE Len(fs) - 1,
         variablesCache |-> <<>>, sourceObjectUri |-> sourceObjectUri,
         exists |-> TRUE]

\* ReplayRuntime constructor; of instrumentationInfo only sourceObjectUri
\* (args.startSourcePath) is kept, the other identifiers are absent
NewRuntime(stackTrace, sourceObjectUri) ==
    LET fs == buildFrames(stackTrace)
    IN  [frames |-> fs, breakpoints |-> <<>>, cursor |-> findInitialFrame(fs),
         variablesCache |-> <<>>, sourceObjectUri |-> sourceObjectUri,
         exists |-> TRUE]

totalFrames(rt) == Len(rt.frames)

\* mutant: the terminal sentinel itself is not counted as terminated
isTerminated_OffByOne(rt) == rt.cursor > Len(rt.frames) \/ rt.cursor < 0

\* ReplayRuntime.isTerminated
isTerminated(rt) == rt.cursor >= Len(rt.frames) \/ rt.cursor < 0

Min(a, b) == IF a < b THEN a ELSE b
Max(a, b) == IF a > b THEN a ELSE b

\* ReplayRuntime.currentFrameIndex
currentFrameIndex(rt) == Min(rt.cursor, Max(0, Len(rt.frames) - 1))

\* mutant: the frame id is read as a position in the internal order
getSnapshotIdForFrame_ByIndex(rt, frameId) ==
    IF frameId >= 0 /\ frameId < Len(rt.frames)
    THEN rt.frames[frameId + 1].snapshotId ELSE NoSnap

\* ReplayRuntime.getSnapshotIdForFrame
getSnapshotIdForFrame(rt, frameId) ==
    LET hasId(f) == f.id = frameId
        idx == findIndex(rt.frames, hasId)
    IN  IF idx >= 0 THEN rt.frames[idx + 1].snapshotId ELSE NoSnap

\* ReplayRuntime.getCurrentSnapshotId
getCurrentSnapshotId(rt) ==
    LET i == currentFrameIndex(rt)
    IN  IF i >= 0 /\ i < Len(rt.frames) THEN rt.frames[i + 1].snapshotId ELSE NoSnap

\* mutant: the frame id, a position in the recorded order, is taken for the
\* position in the internal order
setCursorByFrameId_RawIndex(rt, frameId) ==
    LET hasId(f) == f.id = frameId
        idx == findIndex(rt.frames, hasId)
    IN  IF idx >= 0 THEN [rt EXCEPT !.cursor = frameId] ELSE rt

\* ReplayRuntime.setCursorByFrameId
setCursorByFrameId(rt, frameId) ==
    LET hasId(f) == f.id = frameId
        idx == findIndex(rt.frames, hasId)
    IN  IF idx >= 0 THEN [rt EXCEPT !.cursor = idx] ELSE rt

\* path.normalize(f.file ?? '')
normalizeOrDot(file) == pathNormalize(file)

\* mutant: the file of the hint is not compared
setCursorByLocation_AnyFile(rt, filePath, line) ==
    IF Len(rt.frames) = 0 \/ line = NoNum THEN rt
    ELSE LET matches(f) == f.line = line
             idx == findIndex(rt.frames, matches)
         IN  IF idx >= 0 THEN [rt EXCEPT !.cursor = idx] ELSE rt

\* ReplayRuntime.setCursorByLocation
setCursorByLocation(rt, filePath, line) ==
    IF Len(rt.frames) = 0 \/ line = NoNum THEN rt
    ELSE LET hasFile == filePath # <<>> /\ filePath # <<"">>
             normalizedFile == pathNormalize(filePath)
             matches(f) ==
                 /\ (IF hasFile THEN normalizeOrDot(f.file) = normalizedFile ELSE TRUE)
                 /\ f.line = line
             idx == findIndex(rt.frames, matches)
         IN  IF idx >= 0 THEN [rt EXCEPT !.cursor = idx] ELSE rt

\* mutant: the submitted lines are added to the lines the path already has
setBreakpoints_Merge(rt, sourcePath, lines) ==
    IF sourcePath = <<>> \/ sourcePath = <<"">> THEN rt
    ELSE LET key == pathNormalize(sourcePath)
             had == IF key \in DOMAIN rt.breakpoints THEN rt.breakpoints[key] ELSE {}
         IN  [rt EXCEPT !.breakpoints = MapSet(@, key, had \cup Range(lines))]

\* ReplayRuntime.setBreakpoints; lines is the submitted array
setBreakpoints(rt, sourcePath, lines) ==
    IF sourcePath = <<>> \/ sourcePath = <<"">> THEN rt
    ELSE [rt EXCEPT !.breakpoints = MapSet(@, pathNormalize(sourcePath), Range(lines))]

\* mutant: a breakpoint in the file of the frame counts, whatever its line
hitsBreakpoint_AnyLine(rt, frame) ==
    IF frame.file = NoPath THEN FALSE
    ELSE pathNormalize(frame.file) \in DOMAIN rt.breakpoints

\* ReplayRuntime.hitsBreakpoint
hitsBreakpoint(rt, frame) ==
    IF frame.file = NoPath THEN FALSE
    ELSE LET key == pathNormalize(frame.file)
         IN  IF key \notin DOMAIN rt.breakpoints THEN FALSE
             ELSE frame.line \in rt.breakpoints[key]

\* mutant: the scan answers the last match instead of the first
findNextBreakpointIndex_Last(rt, startIdx) ==
    LET hits == {i \in startIdx..(Len(rt.frames) - 1) : hitsBreakpoint(rt, rt.frames[i + 1])}
    IN  IF hits = {} THEN -1 ELSE CHOOSE i \in hits : \A j \in hits : i >= j

\* ReplayRuntime.findNextBreakpointIndex
findNextBreakpointIndex(rt, startIdx) ==
    LET hits == {i \in startIdx..(Len(rt.frames) - 1) : hitsBreakpoint(rt, rt.frames[i + 1])}
    IN  IF hits = {} THEN -1 ELSE CHOOSE i \in hits : \A j \in hits : i <= j

\* StepResult
Terminated == [terminated |-> TRUE, stopped |-> FALSE, reason |-> NoReason]
Stopped(reason) == [terminated |-> FALSE, stopped |-> TRUE, reason |-> reason]

\* mutant: the end test is off by one, so a step from the last frame moves
\* past it and reports a stop
stepOnce_OffByOne(rt, reason) ==
    IF rt.cursor + 1 > Len(rt.frames)
    THEN [rt |-> [rt EXCEPT !.cursor = Len(rt.frames)], result |-> Terminated]
    ELSE LET moved == [rt EXCEPT !.cursor = rt.cursor + 1]
         IN  IF moved.cursor < Len(rt.frames)
                /\ hitsBreakpoint(moved, moved.frames[moved.cursor + 1])
             THEN [rt |-> moved, result |-> Stopped("breakpoint")]
             ELSE [rt |-> moved,
                   result |-> Stopped(IF reason = NoReason THEN "step" ELSE reason)]

\* ReplayRuntime.stepOnce
stepOnce(rt, reason) ==
    IF rt.cursor + 1 >= Len(rt.frames)
    THEN [rt |-> [rt EXCEPT !.cursor = Len(rt.frames)], result |-> Terminated]
    ELSE LET moved == [rt EXCEPT !.cursor = rt.cursor + 1]
             frame == moved.frames[moved.cursor + 1]
         IN  IF hitsBreakpoint(moved, frame)
             THEN [rt |-> moved, result |-> Stopped("breakpoint")]
             ELSE [rt |-> moved,
                   result |-> Stopped(IF reason = NoReason THEN "step" ELSE reason)]

\* mutant: the scan starts at the cursor instead of just beyond it
continueExecution_FromCursor(rt) ==
    LET nextIdx == findNextBreakpointIndex(rt, rt.cursor)
    IN  IF nextIdx = -1
        THEN [rt |-> [rt EXCEPT !.cursor = Len(rt.frames)], result |-> Terminated]
        ELSE [rt |-> [rt EXCEPT !.cursor = nextIdx], result |-> Stopped("breakpoint")]

\* ReplayRuntime.continueExecution
continueExecution(rt) ==
    LET nextIdx == findNextBreakpointIndex(rt, rt.cursor + 1)
    IN  IF nextIdx = -1
        THEN [rt |-> [rt EXCEPT !.cursor = Len(rt.frames)], result |-> Terminated]
        ELSE [rt |-> [rt EXCEPT !.cursor = nextIdx], result |-> Stopped("breakpoint")]

\* mutant: the whole list is answered, whatever the cursor
getOrderedFrames_All(rt) ==
    IF Len(rt.frames) = 0 \/ rt.cursor < 0 THEN <<>>
    ELSE Reverse(rt.frames)

\* ReplayRuntime.getOrderedFrames
getOrderedFrames(rt) ==
    IF Len(rt.frames) = 0 \/ rt.cursor < 0 THEN <<>>
    ELSE Reverse(SubSeq(rt.frames, 1, Min(rt.cursor + 1, Len(rt.frames))))

(***************************************************************************)
(* Inputs                                                                  *)
(***************************************************************************)
FileA == <<"", "a", "x.ts">>
FileB == <<"", "b", "y.ts">>

\* raw StackTraceFrame descriptors: [file, line (zero-based), snapshotId]
RawFrames ==
    { [file |-> FileA, line |-> 0, snapshotId |-> "s1"],
      [file |-> <<"", "a", ".", "x.ts">>, line |-> 1, snapshotId |-> NoSnap],
      [file |-> NoPath, line |-> NoNum, snapshotId |-> "s2"],
      [file |-> <<"file:", "", "", "b", "y.ts">>, line |-> 0, snapshotId |-> NoSnap] }

Traces == UNION {[1..n -> RawFrames] : n \in 0..MaxFrames}

SourcePaths == {NoPath, FileA, <<"", "a", "b", "..", "x.ts">>, FileB}
LineArrays == {<<>>, <<1>>, <<2>>, <<2, 1, 2>>}
HintPaths == {NoPath, FileA, <<"", "b", ".", "y.ts">>}
HintLines == {NoNum, 1, 2}
FrameIds == 0..MaxFrames
Reasons == {NoReason, "next"}

(***************************************************************************)
(* The runtime on its own: one ReplayRuntime, any sequence of its public   *)
(* cursor and breakpoint operations.                                       *)
(***************************************************************************)
Call(op, before, result) ==
    [op |-> op, before |-> before, result |-> result, arg |-> NoNum]
NoResult == [terminated |-> FALSE, stopped |-> FALSE, reason |-> NoReason]

sessionVars == <<pendingBreakpoints, startLineHint, startSourcePathHint,
                 terminationMessageSent, errorSummary, variableHandles, pending,
                 out, summaryCount, launchFailed, nextRun, loadedIds>>

vars == <<runtime, last, sessionVars>>

\* what a session handler can write
handlerVars == <<runtime, sessionVars>>

InitSession ==
    /\ pendingBreakpoints = <<>>
    /\ startLineHint = NoNum
    /\ startSourcePathHint = NoPath
    /\ terminationMessageSent = FALSE
    /\ errorSummary = "undefined"
    /\ variableHandles = <<>>
    /\ pending = EmptyBag
    /\ out = <<>>
    /\ summaryCount = 0
    /\ launchFailed = FALSE
    /\ nextRun = -1
    /\ loadedIds = {}

InitRuntime ==
    /\ \E t \in Traces :
          /\ runtime = NewRuntime(t, NoPath)
          /\ last = Call("new", -1, NoResult)
    /\ InitSession

RtStepOnce ==
    \E reason \in Reasons :
        LET r == stepOnce(runtime, reason)
        IN  /\ runtime' = r.rt
            /\ last' = [Call("stepOnce", runtime.cursor, r.result) EXCEPT !.arg = reason]
            /\ UNCHANGED sessionVars

RtContinueExecution ==
    LET r == continueExecution(runtime)
    IN  /\ runtime' = r.rt
        /\ last' = Call("continueExecution", runtime.cursor, r.result)
        /\ UNCHANGED sessionVars

RtSetCursorByFrameId ==
    \E id \in FrameIds :
        /\ runtime' = setCursorByFrameId(runtime, id)
        /\ last' = [Call("setCursorByFrameId", runtime.cursor, NoResult) EXCEPT !.arg = id]
        /\ UNCHANGED sessionVars

RtSetCursorByLocation ==
    \E p \in HintPaths, l \in HintLines :
        /\ runtime' = setCursorByLocation(runtime, p, l)
        /\ last' = Call("setCursorByLocation", runtime.cursor, NoResult)
        /\ UNCHANGED sessionVars

RtSetBreakpoints ==
    \E p \in SourcePaths, ls \in LineArrays :
        /\ runtime' = setBreakpoints(runtime, p, ls)
        /\ last' = Call("setBreakpoints", runtime.cursor, NoResult)
        /\ UNCHANGED sessionVars

NextRuntime ==
    \/ RtStepOnce
    \/ RtContinueExecution
    \/ RtSetCursorByFrameId
    \/ RtSetCursorByLocation
    \/ RtSetBreakpoints

SpecRuntime == InitRuntime /\ [][NextRuntime]_vars

(***************************************************************************)
(* The breakpoint store on its own: one runtime over a recorded trace of   *)
(* two files, breakpoints submitted under several spellings, and the steps *)
(* that consult them.                                                      *)
(***************************************************************************)
BreakpointTraces ==
    { << [file |-> FileA, line |-> 0, snapshotId |-> NoSnap],
         [file |-> <<"file:", "", "", "b", "y.ts">>, line |-> 0, snapshotId |-> NoSnap],
         [file |-> <<"", "a", ".", "x.ts">>, line |-> 1, snapshotId |-> "s1"] >> }

InitBreakpoints ==
    /\ \E t \in BreakpointTraces :
          /\ runtime = NewRuntime(t, NoPath)
          /\ last = Call("new", -1, NoResult)
    /\ InitSession

SubmitBreakpoints ==
    \E p \in SourcePaths, ls \in LineArrays :
        /\ runtime' = setBreakpoints(runtime, p, ls)
        /\ last' = [Call("setBreakpoints", runtime.cursor, NoResult)
                         EXCEPT !.arg = [path |-> p, lines |-> ls]]
        /\ UNCHANGED sessionVars

NextBreakpoints ==
    \/ SubmitBreakpoints
    \/ RtStepOnce
    \/ RtContinueExecution
    \/ RtSetCursorByFrameId

SpecBreakpoints == InitBreakpoints /\ [][NextBreakpoints]_vars

(***************************************************************************)
(* ErrorReplaySession: messages                                            *)
(***************************************************************************)
Response(command, body) == [kind |-> "response", name |-> command, body |-> body]
ErrorResponse(command, id) == [kind |-> "error", name |-> command, body |-> id]
Event(name, body) == [kind |-> "event", name |-> name, body |-> body]
StoppedEvent(reason) == Event("stopped", reason)
TerminatedEvent == Event("terminated", "")
OutputEvent(text) == Event("output", text)

SummaryText(summary) ==
    IF summary # "undefined" THEN "Replay finished: Recorded error" ELSE "Replay finished"

IsSummary(m) ==
    /\ m.kind = "event"
    /\ m.name = "output"
    /\ m.body \in {SummaryText("undefined"), SummaryText("Recorded error")}
IsStopped(m) == m.kind = "event" /\ m.name = "stopped"
IsTerminatedEvent(m) == m.kind = "event" /\ m.name = "terminated"
IsError(m) == m.kind = "error"
IsReply(m) == m.kind \in {"response", "error"}

\* what the data source is asked for
\* mutant: a query for a snapshot whose fetch is already under way joins that
\* fetch instead of calling the loader again
LoadCall_Coalesced(snapshotId) ==
    IF \E t \in BagToSet(pending) : t.kind # "launch" /\ t.snapshotId = snapshotId
    THEN [kind |-> "call", name |-> "join", body |-> snapshotId]
    ELSE [kind |-> "call", name |-> "loadVariables", body |-> snapshotId]

LoadCall(snapshotId) == [kind |-> "call", name |-> "loadVariables", body |-> snapshotId]
IsLoadCall(m) == m.kind = "call" /\ m.name = "loadVariables"

Count(msgs, P(_)) == Cardinality({i \in DOMAIN msgs : P(msgs[i])})

\* mutant: the summary is sent whether or not it was sent before
emitTerminationOutput_Always(sent, summary) == <<OutputEvent(SummaryText(summary))>>

\* ErrorReplaySession.emitTerminationOutput: the events it sends
emitTerminationOutput(sent, summary) ==
    IF sent THEN <<>> ELSE <<OutputEvent(SummaryText(summary))>>

\* ErrorReplaySession.stopWithReason: the events it sends
stopWithReason(rt, sent, summary, reason) ==
    IF ~rt.exists \/ isTerminated(rt)
    THEN emitTerminationOutput(sent, summary) \o <<TerminatedEvent>>
    ELSE <<StoppedEvent(reason)>>

allowedReasons ==
    {"step", "breakpoint", "exception", "pause", "entry", "goto",
     "function breakpoint", "data breakpoint", "instruction breakpoint"}

\* mutant: a terminated step signals termination without the summary
postStep_NoSummary(result, sent, summary) ==
    IF result.terminated
    THEN <<TerminatedEvent>>
    ELSE <<StoppedEvent(IF result.reason # NoReason /\ result.reason \in allowedReasons
                        THEN result.reason ELSE "step")>>

\* ErrorReplaySession.postStep: the events it sends
postStep(result, sent, summary) ==
    IF result.terminated
    THEN emitTerminationOutput(sent, summary) \o <<TerminatedEvent>>
    ELSE <<StoppedEvent(IF result.reason # NoReason /\ result.reason \in allowedReasons
                        THEN result.reason ELSE "step")>>

\* Map.set on _pendingBreakpoints: an existing key keeps its position
PendingSet(m, k, v) ==
    IF \E i \in DOMAIN m : m[i].path = k
    THEN [i \in DOMAIN m |-> IF m[i].path = k THEN [path |-> k, lines |-> v] ELSE m[i]]
    ELSE Append(m, [path |-> k, lines |-> v])

\* launchRequest, the loop over _pendingBreakpoints.entries()
RECURSIVE applyPendingBreakpoints(_, _)
applyPendingBreakpoints(rt, entries) ==
    IF entries = <<>> THEN rt
    ELSE applyPendingBreakpoints(
             setBreakpoints(rt, Head(entries).path, Head(entries).lines),
             Tail(entries))

\* ErrorReplaySession.syncCursorToHint: the runtime it leaves
syncCursorToHint(rt, hintPath, hintLine) ==
    IF ~rt.exists \/ hintLine = NoNum THEN rt
    ELSE setCursorByLocation(rt, hintPath, hintLine)

\* mutant: the frames the predicate kept are answered even when there are none
filterFrames_NoFallback(frames, hasPredicate, skipped) ==
    IF ~hasPredicate THEN frames
    ELSE SelectSeq(frames, LAMBDA f : f.file \notin skipped)

\* ErrorReplaySession.filterFrames; skip(file) is the predicate's answer
filterFrames(frames, hasPredicate, skipped) ==
    IF ~hasPredicate THEN frames
    ELSE LET kept == SelectSeq(frames, LAMBDA f : f.file \notin skipped)
         IN  IF kept # <<>> THEN kept ELSE frames

\* Array.prototype.slice(start, end) for 0 <= start
Slice(s, start, end) == SubSeq(s, start + 1, Min(end, Len(s)))

RemoveAt(s, i) == SubSeq(s, 1, i - 1) \o SubSeq(s, i + 1, Len(s))

cursorNow == IF runtime.exists THEN runtime.cursor ELSE -1

(***************************************************************************)
(* ErrorReplaySession: inputs                                              *)
(***************************************************************************)
MaxPending == 2
MaxNextRun == 3
MaxSessionPending == 1

\* stack traces the data source can answer with (crash site first)
SessionTraces ==
    { <<>>,
      << [file |-> FileA, line |-> 0, snapshotId |-> "s1"],
         [file |-> <<"", "a", ".", "x.ts">>, line |-> 1, snapshotId |-> NoSnap],
         [file |-> <<"file:", "", "", "b", "y.ts">>, line |-> 0, snapshotId |-> NoSnap] >> }

SessionSourcePaths == {FileA}
\* StackTraceArguments: <<startFrame, levels>>
SessionWindows == {<<NoNum, NoNum>>, <<1, 1>>}
\* ReplaySessionOptions as stackTraceRequest meets them: whether
\* shouldSkipFrame is set, the files it answers true for, and whether
\* shouldDeemphasize is set
Options(hasPredicate, skipped, hasDeemphasize) ==
    [hasPredicate |-> hasPredicate, skipped |-> skipped,
     hasDeemphasize |-> hasDeemphasize]
NoOptions == Options(FALSE, {}, FALSE)
\* neither predicate, shouldSkipFrame alone, shouldDeemphasize alone
SessionOptions == {NoOptions, Options(TRUE, {FileA}, FALSE), Options(FALSE, {}, TRUE)}
\* neither predicate, and one the handler waits for
AnswerOptions == {NoOptions, Options(FALSE, {}, TRUE)}
\* RestartFrameArguments.frameId
SessionFrameIds == {0, 1, NoNum}
SessionLineArrays == {<<>>, <<1>>}

\* ReplayLaunchArgs: startLine, startSourcePath, trace
LaunchArgs ==
    { [startLine |-> NoNum, startSourcePath |-> NoPath, trace |-> FALSE],
      [startLine |-> 1, startSourcePath |-> NoPath, trace |-> TRUE],
      [startLine |-> 1, startSourcePath |-> FileA, trace |-> FALSE] }

\* what a suspended handler keeps of the arguments of its request.  followed
\* is a history mark that tells one request from the others; no handler
\* reads it
Request(reference, frameId, window, hasPredicate, skipped, hasDeemphasize) ==
    [reference |-> reference, frameId |-> frameId, window |-> window,
     hasPredicate |-> hasPredicate, skipped |-> skipped,
     hasDeemphasize |-> hasDeemphasize, followed |-> FALSE]
NoRequest == Request(NoNum, NoNum, <<NoNum, NoNum>>, FALSE, {}, FALSE)

\* a handler suspended at an await.  stage names the await: "load" the data
\* source (loadStackTrace for a launch, loadVariables for the part `which` of
\* the bundle of snapshotId), any other stage an await that is over as soon as
\* the handlers that run ahead of it have yielded.  A fetch belongs to the
\* runtime that issued it; stale marks a fetch whose runtime has since been
\* replaced by a later launch.  The other fields are the locals the handler
\* holds on to while it is suspended.
Handler(kind, stage, request) ==
    [kind |-> kind, stage |-> stage, request |-> request, which |-> "",
     snapshotId |-> NoSnap, expr |-> <<>>, stale |-> FALSE, locals |-> <<>>,
     args |-> <<>>, record |-> <<>>, node |-> NoNode, frames |-> <<>>,
     variables |-> <<>>]

\* a handler suspended on loadVariables
Task(kind, which, snapshotId, expr, request, locals) ==
    [Handler(kind, "load", request) EXCEPT !.which = which, !.snapshotId = snapshotId,
                                           !.expr = expr, !.locals = locals]

\* launchRequest suspended on loadStackTrace
LaunchTask == Handler("launch", "load", NoRequest)

\* a suspended handler that is waiting for loadVariables
IsFetch(t) == t.kind # "launch" /\ t.stage = "load"

\* mutant: replacing the runtime abandons the handlers suspended on it
MarkStale_Drop(bag) ==
    [t \in {u \in BagToSet(bag) : ~IsFetch(u)} |-> bag[t]]

\* the suspended fetches after this.runtime was replaced
MarkStale(bag) ==
    LET tasks == BagToSet(bag)
        aged(t) == IF IsFetch(t) THEN [t EXCEPT !.stale = TRUE] ELSE t
        images == {aged(t) : t \in tasks}
    IN  [u \in images |->
            LET sources == {t \in tasks : aged(t) = u}
                RECURSIVE Sum(_)
                Sum(S) == IF S = {} THEN 0
                          ELSE LET x == CHOOSE x \in S : TRUE
                               IN  bag[x] + Sum(S \ {x})
            IN  Sum(sources)]

(***************************************************************************)
(* The event loop.  A handler runs without interruption up to its next     *)
(* await.  An await on the data source, or on a predicate of the session   *)
(* options, is over when the outside world settles it; every other await   *)
(* is over at once, and its continuation runs before the session is handed *)
(* the next message.  Requests that arrive together are handed over one    *)
(* after the other before any continuation runs.                           *)
(***************************************************************************)
\* the commands a client sends; the step of any other name is a continuation
RequestOps ==
    {"initialize", "configurationDone", "launch", "threads", "stackTrace", "scopes",
     "variables", "evaluate", "continue", "next", "stepIn", "stepOut", "stepBack",
     "reverseContinue", "restartFrame", "terminate", "setBreakpoints", "exceptionInfo"}

\* stackTraceRequest is waiting for the embedder: filterFrames asks
\* shouldSkipFrame, and getPresentationHint asks shouldDeemphasize, once for
\* each frame they are handed, and await the answer
AsksEmbedder(t) ==
    /\ t.kind = "stackTrace"
    /\ t.frames # <<>>
    /\ (t.request.hasPredicate \/ t.request.hasDeemphasize)

\* the await the handler is suspended at is over
IsReady(t) == t.stage # "load" /\ ~AsksEmbedder(t)

\* continuations have begun to run and some are still ready to run
Draining ==
    /\ last.op \notin RequestOps \cup {"new"}
    /\ \E t \in BagToSet(pending) : IsReady(t)

(***************************************************************************)
(* ErrorReplaySession: request handlers                                    *)
(***************************************************************************)
\* before is the cursor before a runtime call; for a settled fetch it is 0
\* when the cache did not hold the snapshot, 1 when it held the bundle the
\* fetch brings and 2 when it held a different one
SendFrom(op, before, arg, msgs) ==
    /\ op \in RequestOps => ~Draining
    /\ last' = [op |-> op, before |-> before, result |-> NoResult, arg |-> arg]
    /\ out' = msgs
    /\ summaryCount' = summaryCount + Count(msgs, IsSummary)
    /\ terminationMessageSent' = (terminationMessageSent \/ Count(msgs, IsSummary) > 0)
    /\ nextRun' = IF op = "launch:loaded" THEN (IF arg.startLine = NoNum THEN -2 ELSE -1)
                  ELSE IF op = "launch:visible" /\ nextRun = -2 THEN 0
                  ELSE IF op = "next" /\ nextRun \in 0..(MaxNextRun - 1) THEN nextRun + 1
                  ELSE -1
    /\ loadedIds' = loadedIds \cup {msgs[i].body : i \in {j \in DOMAIN msgs : IsLoadCall(msgs[j])}}

SendWith(op, arg, msgs) == SendFrom(op, -1, arg, msgs)

Send(op, msgs) == SendWith(op, NoNum, msgs)

\* initializeRequest
InitializeRequest ==
    /\ Send("initialize", <<Response("initialize", ""), Event("initialized", "")>>)
    /\ UNCHANGED <<runtime, pendingBreakpoints, startLineHint, startSourcePathHint,
                   errorSummary, variableHandles, pending, launchFailed>>

\* launchRequest up to the await on loadStackTrace.  The handler reads its
\* arguments only after the await, so they are drawn where it resumes.
LaunchRequest(maxPending) ==
        /\ BagCardinality(pending) < maxPending
        /\ pending' = pending (+) SetToBag({LaunchTask})
        /\ Send("launch", <<>>)
        /\ UNCHANGED <<runtime, pendingBreakpoints, startLineHint,
                       startSourcePathHint, errorSummary, variableHandles, launchFailed>>

\* launchRequest after loadStackTrace resolved, up to the await on
\* ensureVisibleCursor
LaunchLoaded(traces, launchArgs) ==
    \E t \in traces, args \in launchArgs, task \in BagToSet(pending) :
        /\ task.kind = "launch" /\ task.stage = "load"
        /\ LET
               built == applyPendingBreakpoints(NewRuntime(t, args.startSourcePath),
                                                pendingBreakpoints)
               synced == syncCursorToHint(built, args.startSourcePath, args.startLine)
           IN  /\ runtime' = synced
               /\ errorSummary' = "Recorded error"
               /\ startLineHint' = NoNum
               /\ startSourcePathHint' =
                      IF args.startLine = NoNum THEN args.startSourcePath ELSE NoPath
               /\ SendWith("launch:loaded", args,
                       IF args.trace THEN <<OutputEvent("Loaded replay data")>> ELSE <<>>)
        /\ pending' = MarkStale(pending (-) SetToBag({task}))
                          (+) SetToBag({[task EXCEPT !.stage = "visible"]})
        /\ UNCHANGED <<pendingBreakpoints, variableHandles, launchFailed>>

\* launchRequest after the await on ensureVisibleCursor: the response, and
\* stopWithReason('entry') on the runtime the session has by now
LaunchVisible ==
    \E task \in BagToSet(pending) :
        /\ task.kind = "launch" /\ task.stage = "visible"
        /\ pending' = pending (-) SetToBag({task})
        /\ SendWith("launch:visible", task,
                <<Response("launch", "")>>
                \o stopWithReason(runtime, terminationMessageSent, errorSummary, "entry"))
        /\ UNCHANGED <<runtime, pendingBreakpoints, startLineHint,
                       startSourcePathHint, errorSummary, variableHandles, launchFailed>>

\* mutant: the catch block does not return, so the handler goes on to answer
\* the request and to stopWithReason
LaunchFailed_NoReturn ==
    \E task \in BagToSet(pending) :
        /\ task.kind = "launch" /\ task.stage = "load"
        /\ pending' = pending (-) SetToBag({task})
        /\ SendWith("launch:failed", task,
                <<ErrorResponse("launch", 1001), Response("launch", "")>>
                \o stopWithReason(runtime, terminationMessageSent, errorSummary, "entry"))
        /\ launchFailed' = TRUE
        /\ UNCHANGED <<runtime, pendingBreakpoints, startLineHint,
                       startSourcePathHint, errorSummary, variableHandles>>

\* launchRequest after loadStackTrace rejected
LaunchFailed ==
    \E task \in BagToSet(pending) :
        /\ task.kind = "launch" /\ task.stage = "load"
        /\ pending' = pending (-) SetToBag({task})
        /\ SendWith("launch:failed", task, <<ErrorResponse("launch", 1001)>>)
        /\ launchFailed' = TRUE
        /\ UNCHANGED <<runtime, pendingBreakpoints, startLineHint,
                       startSourcePathHint, errorSummary, variableHandles>>

\* threadsRequest
ThreadsRequest ==
    /\ Send("threads", <<Response("threads", IF runtime.exists THEN <<1>> ELSE <<>>)>>)
    /\ UNCHANGED <<runtime, pendingBreakpoints, startLineHint, startSourcePathHint,
                   errorSummary, variableHandles, pending, launchFailed>>

\* the handler joins the suspended ones
Hold(task, maxPending) ==
    /\ BagCardinality(pending) < maxPending
    /\ pending' = pending (+) SetToBag({task})

\* mutant: the frame list is reversed where it stands instead of in a copy
StackTraceRequest_InPlace(windows, optionSets, maxPending) ==
    \E window \in windows, options \in optionSets :
        LET hasPredicate == options.hasPredicate
            skipped == options.skipped
            hasDeemphasize == options.hasDeemphasize
            request == [window |-> window, hasPredicate |-> hasPredicate,
                        skipped |-> skipped, hasDeemphasize |-> hasDeemphasize]
        IN
        /\ IF ~runtime.exists \/ isTerminated(runtime)
           THEN /\ SendWith("stackTrace", request, <<Response("stackTrace", <<>>)>>)
                /\ UNCHANGED <<runtime, pending>>
           ELSE LET s == IF window[1] = NoNum THEN 0 ELSE window[1]
                    maxLevels == IF window[2] = NoNum THEN totalFrames(runtime)
                                 ELSE window[2]
                    orderedFrames == Slice(getOrderedFrames(runtime), s, s + maxLevels)
                    filtered == filterFrames(orderedFrames, hasPredicate, skipped)
                IN  /\ Hold([Handler("stackTrace", "reply",
                                     Request(NoNum, NoNum, window, hasPredicate,
                                             skipped, hasDeemphasize))
                                EXCEPT !.frames = [i \in DOMAIN filtered |-> filtered[i].id]],
                            maxPending)
                    /\ SendWith("stackTrace", request, <<>>)
                    /\ runtime' = [runtime EXCEPT !.frames = Reverse(runtime.frames)]
        /\ UNCHANGED <<pendingBreakpoints, startLineHint, startSourcePathHint,
                       errorSummary, variableHandles, launchFailed>>

\* stackTraceRequest up to its response or to the await on filterFrames.  The
\* frames are read before the await; what the predicates answer does not
\* depend on when they are asked, so the frame ids of the response are at
\* hand where the handler is suspended.  The hint
\* shouldDeemphasize gives a frame is not part of the response here.
StackTraceRequest(windows, optionSets, maxPending) ==
    \E window \in windows, options \in optionSets :
        LET hasPredicate == options.hasPredicate
            skipped == options.skipped
            hasDeemphasize == options.hasDeemphasize
            request == [window |-> window, hasPredicate |-> hasPredicate,
                        skipped |-> skipped, hasDeemphasize |-> hasDeemphasize]
        IN
        /\ IF ~runtime.exists \/ isTerminated(runtime)
           THEN /\ SendWith("stackTrace", request, <<Response("stackTrace", <<>>)>>)
                /\ UNCHANGED pending
           ELSE LET start == window[1]
                    levels == window[2]
                    s == IF start = NoNum THEN 0 ELSE start
                    maxLevels == IF levels = NoNum THEN totalFrames(runtime) ELSE levels
                    orderedFrames == Slice(getOrderedFrames(runtime), s, s + maxLevels)
                    filtered == filterFrames(orderedFrames, hasPredicate, skipped)
                IN  /\ Hold([Handler("stackTrace", "reply",
                                     Request(NoNum, NoNum, window, hasPredicate,
                                             skipped, hasDeemphasize))
                                EXCEPT !.frames = [i \in DOMAIN filtered |-> filtered[i].id]],
                            maxPending)
                    /\ SendWith("stackTrace", request, <<>>)
        /\ UNCHANGED <<runtime, pendingBreakpoints, startLineHint, startSourcePathHint,
                       errorSummary, variableHandles, launchFailed>>

\* stackTraceRequest after its awaits: the response with the frames it read
StackTraceResumed ==
    \E task \in BagToSet(pending) :
        /\ task.kind = "stackTrace"
        /\ pending' = pending (-) SetToBag({task})
        /\ SendWith("stackTrace:reply", task, <<Response("stackTrace", task.frames)>>)
        /\ UNCHANGED <<runtime, pendingBreakpoints, startLineHint, startSourcePathHint,
                       errorSummary, variableHandles, launchFailed>>

\* continueRequest
ContinueRequest ==
    LET r == IF runtime.exists THEN continueExecution(runtime)
             ELSE [rt |-> runtime, result |-> Terminated]
    IN  /\ runtime' = r.rt
        /\ Send("continue", <<Response("continue", "")>>
                \o postStep(r.result, terminationMessageSent, errorSummary))
        /\ UNCHANGED <<pendingBreakpoints, startLineHint, startSourcePathHint,
                       errorSummary, variableHandles, pending, launchFailed>>

\* nextRequest / performStepOver
NextRequest ==
    LET r == IF runtime.exists THEN stepOnce(runtime, "next")
             ELSE [rt |-> runtime, result |-> Terminated]
    IN  /\ runtime' = r.rt
        /\ Send("next", <<Response("next", "")>>
                \o postStep(r.result, terminationMessageSent, errorSummary))
        /\ UNCHANGED <<pendingBreakpoints, startLineHint, startSourcePathHint,
                       errorSummary, variableHandles, pending, launchFailed>>

\* mutant: the terminated branch reports the end as stopWithReason does, with
\* the summary line
performNoopStep_Summary(rt, command) ==
    IF ~rt.exists \/ isTerminated(rt)
    THEN <<Response(command, "")>>
         \o emitTerminationOutput(terminationMessageSent, errorSummary)
         \o <<TerminatedEvent>>
    ELSE <<OutputEvent("not supported; staying on current frame"),
           Response(command, ""), StoppedEvent("step")>>

\* performNoopStep: the messages it sends
performNoopStep(rt, command) ==
    IF ~rt.exists \/ isTerminated(rt)
    THEN <<Response(command, ""), TerminatedEvent>>
    ELSE <<OutputEvent("not supported; staying on current frame"),
           Response(command, ""), StoppedEvent("step")>>

\* stepInRequest, stepOutRequest
NoopStepRequest ==
    \E command \in {"stepIn", "stepOut"} :
        /\ Send(command, performNoopStep(runtime, command))
        /\ UNCHANGED <<runtime, pendingBreakpoints, startLineHint,
                       startSourcePathHint, errorSummary, variableHandles, pending, launchFailed>>

\* mutant: stepBack and reverseContinue look at the runtime as stepIn and
\* stepOut do, and signal the end on a session that has none left to replay
ReverseStepRequest_Guarded ==
    \E command \in {"stepBack", "reverseContinue"} :
        /\ Send(command,
                IF ~runtime.exists \/ isTerminated(runtime)
                THEN <<Response(command, ""), TerminatedEvent>>
                ELSE <<Response(command, ""),
                       OutputEvent("not supported; use Restart Frame"),
                       StoppedEvent("step")>>)
        /\ UNCHANGED <<runtime, pendingBreakpoints, startLineHint,
                       startSourcePathHint, errorSummary, variableHandles, pending, launchFailed>>

\* stepBackRequest, reverseContinueRequest
ReverseStepRequest ==
    \E command \in {"stepBack", "reverseContinue"} :
        /\ Send(command, <<Response(command, ""),
                  OutputEvent("not supported; use Restart Frame"),
                  StoppedEvent("step")>>)
        /\ UNCHANGED <<runtime, pendingBreakpoints, startLineHint,
                       startSourcePathHint, errorSummary, variableHandles, pending, launchFailed>>

\* mutant: restartFrame leaves a runtime that has reached its end alone
RestartFrameRequest_Guarded(frameIds) ==
    \E frameId \in frameIds :
        /\ runtime' = IF runtime.exists /\ ~isTerminated(runtime) /\ frameId # NoNum
                      THEN setCursorByFrameId(runtime, frameId) ELSE runtime
        /\ SendFrom("restartFrame", cursorNow, frameId,
                    IF frameId # NoNum /\ ~(runtime.exists /\ isTerminated(runtime))
                    THEN <<StoppedEvent("restart"), Response("restartFrame", "")>>
                    ELSE <<Response("restartFrame", "")>>)
        /\ UNCHANGED <<pendingBreakpoints, startLineHint, startSourcePathHint,
                       errorSummary, variableHandles, pending, launchFailed>>

\* restartFrameRequest
RestartFrameRequest(frameIds) ==
    \E frameId \in frameIds :
        /\ IF frameId # NoNum
           THEN /\ runtime' = IF runtime.exists
                              THEN setCursorByFrameId(runtime, frameId) ELSE runtime
                /\ SendFrom("restartFrame", cursorNow, frameId,
                            <<StoppedEvent("restart"), Response("restartFrame", "")>>)
           ELSE /\ runtime' = runtime
                /\ SendFrom("restartFrame", cursorNow, frameId,
                            <<Response("restartFrame", "")>>)
        /\ UNCHANGED <<pendingBreakpoints, startLineHint, startSourcePathHint,
                       errorSummary, variableHandles, pending, launchFailed>>

\* terminateRequest
TerminateRequest ==
    /\ Send("terminate", <<Response("terminate", "")>>
            \o (IF ~runtime.exists \/ isTerminated(runtime)
                THEN emitTerminationOutput(terminationMessageSent, errorSummary)
                ELSE <<>>)
            \o <<TerminatedEvent>>)
    /\ UNCHANGED <<runtime, pendingBreakpoints, startLineHint, startSourcePathHint,
                   errorSummary, variableHandles, pending, launchFailed>>

\* setBreakPointsRequest; the response body is the list of verified lines
SetBreakPointsRequest(sourcePaths, lineArrays) ==
    \E sourcePath \in sourcePaths, lines \in lineArrays :
        /\ pendingBreakpoints' = PendingSet(pendingBreakpoints, sourcePath, lines)
        /\ runtime' = IF runtime.exists
                      THEN setBreakpoints(runtime, sourcePath, lines) ELSE runtime
        /\ Send("setBreakpoints", <<Response("setBreakpoints", lines)>>)
        /\ UNCHANGED <<startLineHint, startSourcePathHint, errorSummary,
                       variableHandles, pending, launchFailed>>

\* mutant: no exception info once the replay has run to its end
noExceptionInfo_Ended(rt) == ~rt.exists \/ isTerminated(rt)

\* buildExceptionInfo answers undefined
noExceptionInfo(rt) == ~rt.exists /\ Len(rt.frames) = 0

\* mutant: the branch without exception info does not return, so the
\* handler sends the error and goes on to send the response
ExceptionInfoRequest_NoReturn ==
    /\ Send("exceptionInfo", IF noExceptionInfo(runtime)
            THEN <<ErrorResponse("exceptionInfo", 3001),
                   Response("exceptionInfo", errorSummary)>>
            ELSE <<Response("exceptionInfo", errorSummary)>>)
    /\ UNCHANGED <<runtime, pendingBreakpoints, startLineHint, startSourcePathHint,
                   errorSummary, variableHandles, pending, launchFailed>>

\* exceptionInfoRequest
ExceptionInfoRequest ==
    /\ Send("exceptionInfo", IF noExceptionInfo(runtime)
            THEN <<ErrorResponse("exceptionInfo", 3001)>>
            ELSE <<Response("exceptionInfo", errorSummary)>>)
    /\ UNCHANGED <<runtime, pendingBreakpoints, startLineHint, startSourcePathHint,
                   errorSummary, variableHandles, pending, launchFailed>>

(***************************************************************************)
(* ErrorReplaySession: scopes, variables and evaluate                      *)
(***************************************************************************)
MaxHandles == 5
MaxSessionHandles == 4
StartHandle == 1000

\* VariableContainer
Container(kind, snapshotId, fields) ==
    [kind |-> kind, snapshotId |-> snapshotId, fields |-> fields]
NoContainer == Container("undefined", NoSnap, <<>>)

\* Handles.get
handlesGet(handles, reference) ==
    IF (reference - StartHandle + 1) \in DOMAIN handles
    THEN handles[reference - StartHandle + 1]
    ELSE NoContainer

\* mutant: the handle minted last is handed out again
nextHandle_Reuse(handles) == StartHandle + Max(Len(handles) - 1, 0)

\* Handles.create: the handle it answers
nextHandle(handles) == StartHandle + Len(handles)

\* DebugProtocol.Variable; the display text is left to the node
Variable(name, node, reference) ==
    [name |-> name, type |-> node.type, node |-> node, variablesReference |-> reference]

\* ErrorReplaySession.convertValue: the variable and the handles it leaves
convertValue(name, node, handles) ==
    IF node.fields # <<>>
    THEN [variable |-> Variable(name, node, nextHandle(handles)),
          handles |-> Append(handles, Container("object", NoSnap, node.fields))]
    ELSE [variable |-> Variable(name, node, 0), handles |-> handles]

\* ErrorReplaySession.buildVariablesFromRecord
RECURSIVE buildVariables(_, _, _)
buildVariables(record, handles, done) ==
    IF record = <<>> THEN [variables |-> done, handles |-> handles]
    ELSE LET c == convertValue(Head(record).name, Head(record).node, handles)
         IN  buildVariables(Tail(record), c.handles, Append(done, c.variable))

buildVariablesFromRecord(record, handles) == buildVariables(record, handles, <<>>)

InactiveFrame ==
    [name |-> "(inactive frame)", type |-> Undef,
     node |-> Node(Undef, Str("Variables load when the frame is active"), <<>>),
     variablesReference |-> 0]

\* mutant: the guard looks at the locals scope only
isInactive_LocalsOnly(rt, container) ==
    /\ container.kind = "locals"
    /\ container.snapshotId # NoSnap
    /\ container.snapshotId # getCurrentSnapshotId(rt)

\* the stale-snapshot guard of resolveVariables
isInactive(rt, container) ==
    /\ container.kind \in {"locals", "arguments"}
    /\ container.snapshotId # NoSnap
    /\ container.snapshotId # getCurrentSnapshotId(rt)

\* what loadVariables can settle with for a snapshot: the argument a is an
\* object for s1 and a Map for any other snapshot
RecordedVariables(snapshotId) ==
    [locals |-> << [name |-> "x",
                    payload |-> [type |-> "number",
                                 value |-> IF snapshotId = "s1" THEN "1" ELSE "2"]] >>,
     arguments |-> << [name |-> "a",
                       payload |->
                           IF snapshotId = "s1"
                           THEN [type |-> "object",
                                 fields |-> << [name |-> "k",
                                                payload |-> [type |-> "string",
                                                             value |-> "null"]] >>]
                           ELSE [type |-> "Map",
                                 entries |-> << << [value |-> "k"],
                                                   [type |-> "string",
                                                    value |-> "null"] >> >>]] >>]

Outcomes(snapshotId) ==
    { [rejected |-> TRUE, value |-> [absent |-> TRUE]],
      [rejected |-> FALSE, value |-> [absent |-> TRUE]],
      [rejected |-> FALSE, value |-> RecordedVariables(snapshotId)] }

\* the suspended handlers that may still mint a handle when they resume
MayMint(t) ==
    \/ t.kind = "variables" /\ t.stage \in {"load", "record"}
    \/ t.kind = "evaluate"
Fetches ==
    LET minters == {t \in BagToSet(pending) : MayMint(t)}
        RECURSIVE Copies(_)
        Copies(S) == IF S = {} THEN 0
                     ELSE LET t == CHOOSE t \in S : TRUE
                          IN  CopiesIn(t, pending) + Copies(S \ {t})
    IN  Copies(minters)
HandleRoom(handles, maxHandles) == Len(handles) + Fetches <= maxHandles
SuspendRoom(maxHandles) == Len(variableHandles) + Fetches + 1 <= maxHandles

\* expression.split('.').filter(Boolean)
segmentsOf(expr) == SelectSeq(expr, LAMBDA seg : seg # "")

\* lookupVariable once locals and arguments are at hand
RECURSIVE walk(_, _)
walk(node, rest) ==
    IF rest = <<>> THEN node
    ELSE LET child == Lookup(node.fields, Head(rest))
         IN  IF child = NoNode THEN NoNode ELSE walk(child, Tail(rest))

lookupVariable(rt, snapshotId, expr, locals, args) ==
    LET segments == segmentsOf(expr)
        root == Head(segments)
        meta == getMeta(rt, snapshotId)
        node == IF Read(locals, root) # NoNode THEN Read(locals, root)
                ELSE IF Read(args, root) # NoNode THEN Read(args, root)
                ELSE Read(meta, root)
    IN  IF node = NoNode THEN NoNode ELSE walk(node, Tail(segments))

\* evaluateRequest after lookupVariable: the response and the handles left
evaluateAnswer(valueNode, handles) ==
    IF valueNode = NoNode
    THEN [body |-> [result |-> "not available", node |-> NoNode, variablesReference |-> 0],
          handles |-> handles]
    ELSE LET c == convertValue("", valueNode, handles)
         IN  [body |-> [result |-> "value", node |-> valueNode,
                        variablesReference |-> c.variable.variablesReference],
              handles |-> c.handles]

\* mutant: one slot for the fetch in flight, so a new fetch displaces the
\* suspended ones
Suspend_SingleSlot(task, maxPending, maxHandles) ==
    /\ BagCardinality(pending) < maxPending
    /\ SuspendRoom(maxHandles)
    /\ pending' = [t \in {u \in BagToSet(pending) : ~IsFetch(u)} |-> pending[t]]
                       (+) SetToBag({task})
    /\ UNCHANGED variableHandles

\* the handler joins the suspended ones and will mint its handles later
Suspend(task, maxPending, maxHandles) ==
    /\ Hold(task, maxPending)
    /\ SuspendRoom(maxHandles)
    /\ UNCHANGED variableHandles

\* scopesRequest
ScopesRequest(frameIds, maxHandles) ==
    \E frameId \in frameIds :
        /\ IF ~runtime.exists
           THEN /\ Send("scopes", <<Response("scopes", <<>>)>>)
                /\ UNCHANGED variableHandles
           ELSE LET snapshotId == getSnapshotIdForFrame(runtime, frameId)
                    first == nextHandle(variableHandles)
                IN  /\ variableHandles' = variableHandles \o
                           << Container("locals", snapshotId, <<>>),
                              Container("arguments", snapshotId, <<>>),
                              Container("meta", snapshotId, <<>>) >>
                    /\ HandleRoom(variableHandles', maxHandles)
                    /\ Send("scopes", <<Response("scopes", <<first, first + 1, first + 2>>)>>)
        /\ UNCHANGED <<runtime, pendingBreakpoints, startLineHint, startSourcePathHint,
                       errorSummary, pending, launchFailed>>

\* variablesRequest up to its first await: resolveVariables as far as it runs
\* at once.  It returns before any await for no container, an inactive frame,
\* the meta scope and an object (whose handles it mints on the spot), and the
\* handler is suspended holding the variables; for locals and arguments it is
\* suspended on getLocals / getArguments holding the cached record, or on
\* loadVariables.  The reference is any handle minted so far, or one just
\* outside them.
VariablesRequest(maxPending, maxHandles) ==
    \E reference \in (StartHandle - 1)..Min(StartHandle + Len(variableHandles),
                                             StartHandle + maxHandles - 1) :
        LET container == handlesGet(variableHandles, reference)
            request == Request(reference, NoNum, <<NoNum, NoNum>>, FALSE, {}, FALSE)
            \* resolveVariables has returned record, built on the spot
            answer(record) ==
                LET built == buildVariablesFromRecord(record, variableHandles)
                IN  /\ HandleRoom(built.handles, maxHandles)
                    /\ variableHandles' = built.handles
                    /\ Hold([Handler("variables", "reply", request)
                                EXCEPT !.variables = built.variables], maxPending)
                    /\ SendWith("variables", reference, <<>>)
            \* resolveVariables is suspended on getLocals / getArguments
            await(record) ==
                /\ Suspend([Handler("variables", "record", request)
                               EXCEPT !.which = container.kind,
                                      !.snapshotId = container.snapshotId,
                                      !.record = record], maxPending, maxHandles)
                /\ SendWith("variables", reference, <<>>)
        IN  /\ IF container = NoContainer \/ ~runtime.exists
               THEN answer(<<>>)
               ELSE IF isInactive(runtime, container)
               THEN /\ Hold([Handler("variables", "reply", request)
                                EXCEPT !.variables = <<InactiveFrame>>], maxPending)
                    /\ SendWith("variables", reference, <<>>)
                    /\ UNCHANGED variableHandles
               ELSE IF container.kind \in {"locals", "arguments"}
               THEN IF container.snapshotId = NoSnap THEN await(<<>>)
                    ELSE IF isCached(runtime, container.snapshotId)
                    THEN await(runtime.variablesCache[container.snapshotId][container.kind])
                    ELSE /\ Suspend(Task("variables", container.kind, container.snapshotId,
                                         <<>>, request, <<>>), maxPending, maxHandles)
                         /\ SendWith("variables", reference, <<LoadCall(container.snapshotId)>>)
               ELSE IF container.kind = "meta"
               THEN answer(getMeta(runtime, container.snapshotId))
               ELSE answer(container.fields)
            /\ UNCHANGED <<runtime, pendingBreakpoints, startLineHint,
                           startSourcePathHint, errorSummary, launchFailed>>

\* resolveVariables after the await on getLocals / getArguments:
\* buildVariablesFromRecord mints the handles, and variablesRequest is left
\* suspended on resolveVariables
VariablesBuilt ==
    \E task \in BagToSet(pending) :
        /\ task.kind = "variables" /\ task.stage = "record"
        /\ LET built == buildVariablesFromRecord(task.record, variableHandles)
           IN  /\ variableHandles' = built.handles
               /\ pending' = (pending (-) SetToBag({task})) (+) SetToBag({
                      [Handler("variables", "reply", task.request)
                          EXCEPT !.variables = built.variables]})
               /\ SendWith("variables:record", task, <<>>)
        /\ UNCHANGED <<runtime, pendingBreakpoints, startLineHint, startSourcePathHint,
                       errorSummary, launchFailed>>

\* variablesRequest after the await on resolveVariables: the response
VariablesResumed ==
    \E task \in BagToSet(pending) :
        /\ task.kind = "variables" /\ task.stage = "reply"
        /\ pending' = pending (-) SetToBag({task})
        /\ SendWith("variables:reply", task, <<Response("variables", task.variables)>>)
        /\ UNCHANGED <<runtime, pendingBreakpoints, startLineHint, startSourcePathHint,
                       errorSummary, variableHandles, launchFailed>>

\* evaluateRequest up to its response or to its first await; last keeps the
\* arguments of the request.  lookupVariable returns before any await when
\* the expression has no segment or the frame has no snapshot, and the
\* handler is suspended holding the node; otherwise it is suspended on
\* getLocals, holding the cached locals, or on loadVariables.
EvaluateRequest(expressions, frameArgs, maxPending, maxHandles) ==
    \E expr \in expressions, frameArg \in frameArgs :
        LET request == [expr |-> expr, frameId |-> frameArg]
            kept == Request(NoNum, frameArg, <<NoNum, NoNum>>, FALSE, {}, FALSE)
        IN
        /\ IF ~runtime.exists
           THEN /\ SendWith("evaluate", request, <<ErrorResponse("evaluate", 2001)>>)
                /\ UNCHANGED <<variableHandles, pending>>
           ELSE IF expr = <<>>
           THEN /\ SendWith("evaluate", request, <<Response("evaluate",
                        [result |-> "", node |-> NoNode, variablesReference |-> 0])>>)
                /\ UNCHANGED <<variableHandles, pending>>
           ELSE LET frameId == IF frameArg # NoNum THEN frameArg
                               ELSE currentFrameIndex(runtime)
                    snapshotId == getSnapshotIdForFrame(runtime, frameId)
                    found(node) ==
                        /\ Suspend([Handler("evaluate", "node", kept)
                                       EXCEPT !.snapshotId = snapshotId, !.expr = expr,
                                              !.node = node], maxPending, maxHandles)
                        /\ SendWith("evaluate", request, <<>>)
                IN  IF segmentsOf(expr) = <<>> THEN found(NoNode)
                    ELSE IF snapshotId = NoSnap
                    THEN found(lookupVariable(runtime, snapshotId, expr, <<>>, <<>>))
                    ELSE IF isCached(runtime, snapshotId)
                    THEN /\ Suspend([Handler("evaluate", "locals", kept)
                                       EXCEPT !.snapshotId = snapshotId, !.expr = expr,
                                              !.locals = runtime.variablesCache[snapshotId].locals],
                                    maxPending, maxHandles)
                         /\ SendWith("evaluate", request, <<>>)
                    ELSE /\ Suspend(Task("evaluate", "locals", snapshotId, expr,
                                         kept, <<>>), maxPending, maxHandles)
                         /\ SendWith("evaluate", request, <<LoadCall(snapshotId)>>)
        /\ UNCHANGED <<runtime, pendingBreakpoints, startLineHint, startSourcePathHint,
                       errorSummary, launchFailed>>

\* lookupVariable after the await on getLocals: it asks the runtime the
\* session has by now for the arguments, and is suspended on getArguments
\* holding the cached arguments, or on loadVariables
EvaluateLocals ==
    \E task \in BagToSet(pending) :
        /\ task.kind = "evaluate" /\ task.stage = "locals"
        /\ IF isCached(runtime, task.snapshotId)
           THEN /\ pending' = (pending (-) SetToBag({task})) (+) SetToBag({
                       [task EXCEPT !.stage = "arguments",
                                    !.args = runtime.variablesCache[task.snapshotId].arguments]})
                /\ SendWith("evaluate:locals", task, <<>>)
           ELSE /\ pending' = (pending (-) SetToBag({task})) (+) SetToBag({
                       Task("evaluate", "arguments", task.snapshotId, task.expr,
                            task.request, task.locals)})
                /\ SendWith("evaluate:locals", task, <<LoadCall(task.snapshotId)>>)
        /\ UNCHANGED <<runtime, pendingBreakpoints, startLineHint, startSourcePathHint,
                       errorSummary, variableHandles, launchFailed>>

\* lookupVariable after the await on getArguments: it reads the meta fields
\* of the runtime the session has by now and walks the path; evaluateRequest
\* is left suspended on lookupVariable
EvaluateArguments ==
    \E task \in BagToSet(pending) :
        /\ task.kind = "evaluate" /\ task.stage = "arguments"
        /\ pending' = (pending (-) SetToBag({task})) (+) SetToBag({
               [Handler("evaluate", "node", task.request)
                   EXCEPT !.snapshotId = task.snapshotId, !.expr = task.expr,
                          !.node = lookupVariable(runtime, task.snapshotId, task.expr,
                                                  task.locals, task.args)]})
        /\ SendWith("evaluate:arguments", task, <<>>)
        /\ UNCHANGED <<runtime, pendingBreakpoints, startLineHint, startSourcePathHint,
                       errorSummary, variableHandles, launchFailed>>

\* evaluateRequest after the await on lookupVariable: convertValue and the
\* response
EvaluateResumed ==
    \E task \in BagToSet(pending) :
        /\ task.kind = "evaluate" /\ task.stage = "node"
        /\ LET a == evaluateAnswer(task.node, variableHandles)
           IN  /\ variableHandles' = a.handles
               /\ pending' = pending (-) SetToBag({task})
               /\ SendWith("evaluate:reply", task, <<Response("evaluate", a.body)>>)
        /\ UNCHANGED <<runtime, pendingBreakpoints, startLineHint, startSourcePathHint,
                       errorSummary, launchFailed>>

\* a handler suspended on loadVariables resumes: fetchVariables returns the
\* bundle, getOrLoadVariables stores it into the runtime that fetched (when
\* keepFailure is false, only a bundle that was loaded), and the handler is
\* left where getLocals / getArguments returns to
Settled(keepFailure) ==
    \E task \in BagToSet(pending) :
        /\ IsFetch(task)
        /\ \E outcome \in Outcomes(task.snapshotId) :
            LET variables == fetchVariables(outcome)
                op == IF outcome.rejected THEN "loadVariables:rejected"
                      ELSE "loadVariables:resolved"
                stored == IF task.stale \/ (outcome.rejected /\ ~keepFailure) THEN runtime
                          ELSE cacheSet(runtime, task.snapshotId, variables)
                rest == pending (-) SetToBag({task})
                held == IF task.stale \/ ~isCached(runtime, task.snapshotId) THEN 0
                        ELSE IF runtime.variablesCache[task.snapshotId] = variables
                        THEN 1 ELSE 2
            IN  IF variables = Thrown
                THEN \* the exception leaves getOrLoadVariables and the handler:
                     \* nothing is cached and no response is sent
                     /\ runtime' = runtime
                     /\ pending' = rest
                     /\ SendFrom(op, held, task, <<>>)
                ELSE
                /\ runtime' = stored
                /\ pending' = rest (+) SetToBag({
                       IF task.kind = "variables"
                       THEN [task EXCEPT !.stage = "record", !.stale = FALSE,
                                         !.record = variables[task.which]]
                       ELSE IF task.which = "locals"
                       THEN [task EXCEPT !.stage = "locals", !.stale = FALSE,
                                         !.which = "", !.locals = variables.locals]
                       ELSE [task EXCEPT !.stage = "arguments", !.stale = FALSE,
                                         !.which = "", !.args = variables.arguments]})
                /\ SendFrom(op, held, task, <<>>)
        /\ UNCHANGED <<pendingBreakpoints, startLineHint, startSourcePathHint,
                       errorSummary, variableHandles, launchFailed>>

\* mutant: getOrLoadVariables keeps what was loaded and forgets a failed load
LoadVariablesSettled_FailureNotCached == Settled(FALSE)

\* loadVariables settled
LoadVariablesSettled == Settled(TRUE)

SessionExpressions == {<<>>, <<"x">>}

(***************************************************************************)
(* The session: launches, navigation, breakpoints and the stack, with      *)
(* evaluate requests and their fetches in between.  Scopes and variables   *)
(* requests join them in SpecAnswers, over a smaller recording.            *)
(***************************************************************************)
Init ==
    /\ runtime = NoRuntime
    /\ last = Call("new", -1, NoResult)
    /\ InitSession

Next ==
    \/ InitializeRequest
    \/ LaunchRequest(MaxSessionPending)
    \/ LaunchLoaded(SessionTraces, LaunchArgs)
    \/ LaunchVisible
    \/ LaunchFailed
    \/ ThreadsRequest
    \/ StackTraceRequest({<<NoNum, NoNum>>}, SessionOptions, MaxSessionPending)
    \/ StackTraceResumed
    \/ ContinueRequest
    \/ NextRequest
    \/ NoopStepRequest
    \/ ReverseStepRequest
    \/ RestartFrameRequest(SessionFrameIds)
    \/ TerminateRequest
    \/ SetBreakPointsRequest(SessionSourcePaths, SessionLineArrays)
    \/ ExceptionInfoRequest
    \/ EvaluateRequest(SessionExpressions, {NoNum}, MaxSessionPending, MaxSessionHandles)
    \/ EvaluateLocals
    \/ EvaluateArguments
    \/ EvaluateResumed
    \/ LoadVariablesSettled

Spec == Init /\ [][Next]_vars

(***************************************************************************)
(* The stack view: a launched session is walked with next and restartFrame *)
(* and asked for windows of its stack under several skip predicates.       *)
(***************************************************************************)
\* <<startFrame, levels>>: the whole stack, inner windows, one past the end
StackWindows == SessionWindows \cup {<<0, 2>>, <<3, 1>>}
\* the files shouldSkipFrame answers true for: none, some, all
StackSkipSets == {{}, {FileA}, {FileA, FileB}}
StackOptions ==
    {Options(FALSE, {}, hasDeemphasize) : hasDeemphasize \in BOOLEAN}
        \cup {Options(TRUE, skipped, hasDeemphasize) :
                 skipped \in StackSkipSets, hasDeemphasize \in BOOLEAN}

NextStack ==
    \/ LaunchRequest(MaxSessionPending)
    \/ LaunchLoaded(SessionTraces, LaunchArgs)
    \/ LaunchVisible
    \/ NextRequest
    \/ RestartFrameRequest(SessionFrameIds)
    \/ StackTraceRequest(StackWindows, StackOptions, MaxSessionPending)
    \/ StackTraceResumed

SpecStack == Init /\ [][NextStack]_vars

(***************************************************************************)
(* The variable side: two handlers may be suspended on the data source at  *)
(* once, the session is walked with next and restartFrame and launched     *)
(* again in between.                                                       *)
(***************************************************************************)
VariableTraces ==
    { << [file |-> NoPath, line |-> NoNum, snapshotId |-> NoSnap],
         [file |-> FileA, line |-> 0, snapshotId |-> "s1"] >> }

VariableLaunchArgs ==
    { [startLine |-> NoNum, startSourcePath |-> NoPath, trace |-> FALSE] }

\* a recorded local, a meta field, an inherited property name
VariableExpressions == {<<"x">>, <<"snapshotId">>, <<"valueOf">>}

NextVariables ==
    \/ LaunchRequest(MaxPending)
    \/ LaunchLoaded(VariableTraces, VariableLaunchArgs)
    \/ LaunchVisible
    \/ NextRequest
    \/ RestartFrameRequest({1})
    \/ ScopesRequest({1}, MaxHandles)
    \/ VariablesRequest(MaxPending, MaxHandles)
    \/ VariablesBuilt
    \/ VariablesResumed
    \/ EvaluateRequest({<<"x">>}, {NoNum}, MaxPending, MaxHandles)
    \/ EvaluateLocals
    \/ EvaluateArguments
    \/ EvaluateResumed
    \/ LoadVariablesSettled

SpecVariables == Init /\ [][NextVariables]_vars

(***************************************************************************)
(* The handle table: scopes, variables and evaluate requests mint handles  *)
(* one after the other, each when handles of the others exist, and the     *)
(* session is launched again in between.                                   *)
(***************************************************************************)
\* room for two rounds of scopes (three handles each), an object minted by
\* variables and one minted by evaluate
MaxMinted == 8

NextHandles ==
    \/ LaunchRequest(MaxSessionPending)
    \/ LaunchLoaded(VariableTraces, VariableLaunchArgs)
    \/ LaunchVisible
    \/ ScopesRequest({1}, MaxMinted)
    \/ VariablesRequest(MaxSessionPending, MaxMinted)
    \/ VariablesBuilt
    \/ VariablesResumed
    \/ EvaluateRequest({<<"a">>, <<"x">>}, {1}, MaxSessionPending, MaxMinted)
    \/ EvaluateLocals
    \/ EvaluateArguments
    \/ EvaluateResumed
    \/ LoadVariablesSettled

SpecHandles == Init /\ [][NextHandles]_vars

(***************************************************************************)
(* Two snapshots: fetches for one frame are in flight while the session    *)
(* navigates and is asked about the other frame.                           *)
(***************************************************************************)
FetchTraces ==
    { << [file |-> FileA, line |-> 0, snapshotId |-> "s1"],
         [file |-> FileA, line |-> 1, snapshotId |-> "s2"] >> }

NextFetch ==
    \/ LaunchRequest(MaxSessionPending)
    \/ LaunchLoaded(FetchTraces, VariableLaunchArgs)
    \/ LaunchVisible
    \/ NextRequest
    \/ ContinueRequest
    \/ RestartFrameRequest({1})
    \/ SetBreakPointsRequest(SessionSourcePaths, {<<1>>})
    \/ ScopesRequest({0}, MaxSessionHandles)
    \/ VariablesRequest(MaxPending, MaxSessionHandles)
    \/ VariablesBuilt
    \/ VariablesResumed
    \/ EvaluateRequest({<<"x">>}, {NoNum, 1}, MaxPending, MaxSessionHandles)
    \/ EvaluateLocals
    \/ EvaluateArguments
    \/ EvaluateResumed
    \/ LoadVariablesSettled

SpecFetch == Init /\ [][NextFetch]_vars

(***************************************************************************)
(* The same two snapshots with one handler suspended at a time: which      *)
(* snapshot a request asks the loader for, wherever the cursor is.         *)
(***************************************************************************)
NextGuard ==
    \/ LaunchRequest(MaxSessionPending)
    \/ LaunchLoaded(FetchTraces, VariableLaunchArgs)
    \/ LaunchVisible
    \/ NextRequest
    \/ ContinueRequest
    \/ RestartFrameRequest({1})
    \/ ScopesRequest({0}, MaxSessionHandles)
    \/ VariablesRequest(MaxSessionPending, MaxSessionHandles)
    \/ VariablesBuilt
    \/ VariablesResumed
    \/ EvaluateRequest({<<"x">>}, {NoNum, 1}, MaxSessionPending, MaxSessionHandles)
    \/ EvaluateLocals
    \/ EvaluateArguments
    \/ EvaluateResumed
    \/ LoadVariablesSettled

SpecGuard == Init /\ [][NextGuard]_vars

(***************************************************************************)
(* Scheduling: one request at a time is followed through its awaits while  *)
(* other requests arrive, are answered, and the session is launched again. *)
(* The promise the followed handler waits for settles, and its             *)
(* continuation runs once it is ready.                                     *)
(***************************************************************************)
\* the suspended handler of the request that is followed, if there is one
FollowedTasks == {t \in BagToSet(pending) : t.request.followed}
Followed == FollowedTasks # {}

\* the await the followed handler is suspended at
FollowedAwait ==
    LET t == CHOOSE t \in FollowedTasks : TRUE
    IN  <<t.stage, t.which>>

\* history: a suspended request is picked to be followed, when none is.  The
\* session does not change
Follow ==
    /\ ~Followed
    /\ \E t \in BagToSet(pending) :
          pending' = (pending (-) SetToBag({t}))
                         (+) SetToBag({[t EXCEPT !.request.followed = TRUE]})
    /\ UNCHANGED <<runtime, last, pendingBreakpoints, startLineHint,
                   startSourcePathHint, terminationMessageSent, errorSummary,
                   variableHandles, out, summaryCount, launchFailed, nextRun,
                   loadedIds>>

NextFair ==
    \/ LaunchRequest(MaxPending)
    \/ LaunchLoaded(VariableTraces, VariableLaunchArgs)
    \/ LaunchVisible
    \/ LaunchFailed
    \/ StackTraceRequest({<<NoNum, NoNum>>}, AnswerOptions, MaxPending)
    \/ StackTraceResumed
    \/ ScopesRequest({1}, MaxSessionHandles)
    \/ VariablesRequest(MaxPending, MaxSessionHandles)
    \/ VariablesBuilt
    \/ VariablesResumed
    \/ EvaluateRequest({<<"x">>}, {1}, MaxPending, MaxSessionHandles)
    \/ EvaluateLocals
    \/ EvaluateArguments
    \/ EvaluateResumed
    \/ LoadVariablesSettled
    \/ Follow

\* the followed handler resumes: the promise it waits for has settled
\* (loadStackTrace, loadVariables, a predicate of the options) or its
\* continuation has come to run, and it has answered or reached its next
\* await
Resume ==
    /\ Followed
    /\ \/ LaunchFailed
       \/ LaunchVisible
       \/ StackTraceResumed
       \/ VariablesBuilt
       \/ VariablesResumed
       \/ EvaluateLocals
       \/ EvaluateArguments
       \/ EvaluateResumed
       \/ LoadVariablesSettled
       \/ LaunchLoaded(VariableTraces, VariableLaunchArgs)
    /\ (~Followed' \/ FollowedAwait' # FollowedAwait)

\* every promise the followed request waits for settles, and its
\* continuations are scheduled
Fairness == WF_vars(Resume)

SpecFair == Init /\ [][NextFair]_vars /\ Fairness

(***************************************************************************)
(* Dotted paths: evaluate is asked for names that are recorded, names that *)
(* are not, and names every object inherits.                               *)
(***************************************************************************)
\* EvaluateArguments.expression, split at the dots
LookupExpressions ==
    {<<"x">>, <<"a", "k">>, <<"a", "x">>, <<"x", "k">>, <<"nope">>,
     <<"snapshotId">>, <<"constructor">>, <<"valueOf">>, <<"hasOwnProperty">>,
     <<"__proto__">>, <<"valueOf", "k">>, <<"a", "constructor">>, <<"", "">>}

NextLookup ==
    \/ LaunchRequest(MaxSessionPending)
    \/ LaunchLoaded(VariableTraces, VariableLaunchArgs)
    \/ LaunchVisible
    \/ EvaluateRequest(LookupExpressions, {0, 1}, MaxSessionPending, MaxSessionHandles)
    \/ EvaluateLocals
    \/ EvaluateArguments
    \/ EvaluateResumed
    \/ LoadVariablesSettled

SpecLookup == Init /\ [][NextLookup]_vars

(***************************************************************************)
(* coerceValue on its own: a preview text and a declared type are drawn,   *)
(* and one step applies the function and leaves its value in out.         *)
(***************************************************************************)
\* VariablePayload.value as recorded, undefined included
Previews ==
    {Undef, Str("null"), Str("1"), Str("2"), Str("42"), Str(""), Str("true"),
     Str("false"), Str("abc"), Str("undefined")}
\* VariablePayload.type
DeclaredTypes ==
    {Undef, Str("number"), Str("boolean"), Str("string"), Str("object"), Str("null")}

InitCoerce ==
    /\ runtime = NoRuntime
    /\ InitSession
    /\ \E valuePreview \in Previews, type \in DeclaredTypes :
          last = [Call("new", -1, NoResult)
                     EXCEPT !.arg = [valuePreview |-> valuePreview, type |-> type]]

CoerceValue ==
    /\ last.op = "new"
    /\ last' = [last EXCEPT !.op = "coerceValue"]
    /\ out' = <<coerceValue(last.arg.valuePreview, last.arg.type)>>
    /\ UNCHANGED <<runtime, pendingBreakpoints, startLineHint, startSourcePathHint,
                   terminationMessageSent, errorSummary, variableHandles, pending,
                   summaryCount, launchFailed, nextRun, loadedIds>>

SpecCoerce == InitCoerce /\ [][CoerceValue]_vars

(***************************************************************************)
(* The preview text of a variable.  The nodes lie in a heap, ref to        *)
(* [type, value, fields], and fields is the sequence of [name, ref] links  *)
(* in the order Object.keys gives them, so that a link may lead back to a  *)
(* node above it.                                                          *)
(***************************************************************************)
\* the one character U+2026, spelled with characters a string may hold here
Ellipsis == "..."
NoRef == NoNum
Cell(type, value, fields) == [type |-> type, value |-> value, fields |-> fields]
Link(name, ref) == [name |-> name, ref |-> ref]
KeysOf(fields) == [i \in DOMAIN fields |-> fields[i].name]
\* fields[name], undefined (NoRef) when there is no such key
RefOf(fields, name) ==
    IF \E i \in DOMAIN fields : fields[i].name = name
    THEN fields[CHOOSE i \in DOMAIN fields : fields[i].name = name].ref
    ELSE NoRef

\* parseInt(k, 10) of a key matching /^\d+$/, and -1 for any other key
KeyNumber(k) ==
    CASE k = "0" -> 0 [] k = "1" -> 1 [] k = "2" -> 2 [] k = "3" -> 3
      [] k = "4" -> 4 [] k = "5" -> 5 [] k = "6" -> 6 [] k = "007" -> 7
      [] OTHER -> -1
Largest(S) == CHOOSE n \in S : \A m \in S : m <= n

RECURSIVE Join(_, _)
Join(texts, separator) ==
    IF texts = <<>> THEN ""
    ELSE IF Len(texts) = 1 THEN texts[1]
    ELSE texts[1] \o separator \o Join(Tail(texts), separator)

\* ErrorReplaySession.isArrayLike
isArrayLike(keys) ==
    /\ keys # <<>>
    /\ \A i \in DOMAIN keys : KeyNumber(keys[i]) >= 0

\* mutant: the length is the number of keys
inferArrayLength_Count(keys) == Len(keys)

\* ErrorReplaySession.inferArrayLength
inferArrayLength(keys) ==
    IF keys = <<>> THEN 0
    ELSE LET numeric == {KeyNumber(keys[i]) : i \in DOMAIN keys} \ {-1}
         IN  IF numeric = {} THEN Len(keys) ELSE Largest(numeric) + 1

\* ErrorReplaySession.looksNumeric and String(Number(value)) on the texts used
looksNumeric(value) == value \in {"1", "2", "42", "007"}
NumberText(value) == IF value = "007" THEN "7" ELSE value

\* ErrorReplaySession.formatFunctionPreview on the texts used: the first line
formatFunctionPreview(raw) ==
    IF raw = "function f() {\n}" THEN "function f() {" ELSE raw

\* ErrorReplaySession.formatPrimitive
formatPrimitive(node) ==
    IF node.value = Null THEN "null"
    ELSE IF node.value = Undef
         THEN IF node.type = Undef THEN "undefined" ELSE node.type.s
    ELSE IF node.value.t = "string"
         THEN IF node.type = Str("object")
              THEN IF node.value.s = "Object" THEN "{" \o Ellipsis \o "}"
                   ELSE node.value.s
              ELSE IF node.type = Str("function")
              THEN formatFunctionPreview(node.value.s)
              ELSE IF looksNumeric(node.value.s) THEN NumberText(node.value.s)
              ELSE node.value.s
    ELSE IF node.value.t = "number" THEN ToString(node.value.n)
    ELSE node.value.s

\* mutant: a child that has children is rendered through its own children
previewChild_Deep(heap, ref) ==
    IF ref = NoRef THEN "undefined"
    ELSE IF heap[ref].value # Undef THEN formatPrimitive(heap[ref])
    ELSE IF heap[ref].fields = <<>>
         THEN IF heap[ref].type = Undef THEN "value" ELSE heap[ref].type.s
    ELSE "{ " \o Join([i \in DOMAIN heap[ref].fields |->
                          formatPrimitive(heap[heap[ref].fields[i].ref])], ", ")
              \o " }"

\* ErrorReplaySession.previewChild
previewChild(heap, ref) ==
    IF ref = NoRef THEN "undefined"
    ELSE IF heap[ref].value # Undef THEN formatPrimitive(heap[ref])
    ELSE IF heap[ref].fields = <<>>
         THEN IF heap[ref].type = Undef THEN "value" ELSE heap[ref].type.s
    ELSE IF isArrayLike(KeysOf(heap[ref].fields))
         THEN "Array(" \o ToString(inferArrayLength(KeysOf(heap[ref].fields))) \o ")"
    ELSE "{" \o Ellipsis \o "}"

\* the texts pushed on `preview` by formatArrayPreview
ArrayItems(heap, fields) ==
    LET length == inferArrayLength(KeysOf(fields))
        max == Min(length, 3)
        preview == [i \in 1..max |-> previewChild(heap, RefOf(fields, IndexKey(i - 1)))]
    IN  IF length > max THEN Append(preview, Ellipsis) ELSE preview

\* ErrorReplaySession.formatArrayPreview
formatArrayPreview(heap, fields) ==
    "(" \o ToString(inferArrayLength(KeysOf(fields))) \o ") ["
        \o Join(ArrayItems(heap, fields), ", ") \o "]"

\* ErrorReplaySession.formatObjectPreview
formatObjectPreview(heap, fields) ==
    LET shown == [i \in 1..Min(Len(fields), 3) |->
                     fields[i].name \o ": " \o previewChild(heap, fields[i].ref)]
        previews == IF Len(fields) > 3 THEN Append(shown, Ellipsis) ELSE shown
    IN  "{ " \o Join(previews, ", ") \o " }"

\* ErrorReplaySession.formatNodeValue
formatNodeValue(heap, ref) ==
    IF heap[ref].value # Undef THEN formatPrimitive(heap[ref])
    ELSE IF heap[ref].fields = <<>>
         THEN IF heap[ref].type = Undef THEN "value" ELSE heap[ref].type.s
    ELSE IF isArrayLike(KeysOf(heap[ref].fields))
         THEN formatArrayPreview(heap, heap[ref].fields)
    ELSE formatObjectPreview(heap, heap[ref].fields)

\* the node that is rendered: sparse and long sequences, objects, mixed
\* keys, a node without fields and a node with a value
RootCells ==
    { Cell(Str("array"), Undef, <<Link("0", 1), Link("2", 2)>>),
      Cell(Str("array"), Undef, <<Link("0", 1), Link("1", 2), Link("2", 3), Link("3", 1)>>),
      Cell(Str("array"), Undef, <<Link("5", 1)>>),
      Cell(Str("array"), Undef, <<Link("007", 2)>>),
      Cell(Str("object"), Undef, <<Link("a", 1), Link("b", 2)>>),
      Cell(Str("object"), Undef, <<Link("a", 1), Link("b", 2), Link("c", 3), Link("d", 3)>>),
      Cell(Str("object"), Undef, <<Link("0", 1), Link("a", 2)>>),
      Cell(Str("object"), Undef, <<>>),
      Cell(Str("object"), Str("Object"), <<>>) }
\* its children: values, a sequence, and objects whose links lead on to the
\* third node or back to the rendered node or to themselves
FirstChildCells ==
    { Cell(Str("number"), Num(1), <<>>),
      Cell(Str("string"), Str("007"), <<>>),
      Cell(Str("array"), Undef, <<Link("0", 3), Link("1", 3)>>),
      Cell(Str("object"), Undef, <<Link("k", 0)>>) }
SecondChildCells ==
    { Cell(Str("string"), Str("abc"), <<>>),
      Cell(Str("null"), Null, <<>>),
      Cell(Str("object"), Undef, <<Link("k", 3)>>),
      Cell(Str("array"), Undef, <<Link("0", 2)>>) }
ThirdChildCells ==
    { Cell(Str("number"), Num(42), <<>>),
      Cell(Str("boolean"), Bool(TRUE), <<>>),
      Cell(Str("function"), Str("function f() {\n}"), <<>>),
      Cell(Undef, Undef, <<>>) }
PreviewHeaps ==
    { <<root, first, second, third>> :
          root \in RootCells, first \in FirstChildCells,
          second \in SecondChildCells, third \in ThirdChildCells }
\* a heap given as a tuple, read with refs that start at 0
HeapOf(cells) == [ref \in 0..(Len(cells) - 1) |-> cells[ref + 1]]

InitPreview ==
    /\ runtime = NoRuntime
    /\ InitSession
    /\ \E cells \in PreviewHeaps :
          last = [Call("new", -1, NoResult) EXCEPT !.arg = HeapOf(cells)]

FormatNodeValue ==
    /\ last.op = "new"
    /\ last' = [last EXCEPT !.op = "formatNodeValue"]
    /\ out' = <<formatNodeValue(last.arg, 0)>>
    /\ UNCHANGED <<runtime, pendingBreakpoints, startLineHint, startSourcePathHint,
                   terminationMessageSent, errorSummary, variableHandles, pending,
                   summaryCount, launchFailed, nextRun, loadedIds>>

SpecPreview == InitPreview /\ [][FormatNodeValue]_vars

(***************************************************************************)
(* Navigation: a session is launched, walked to its end with breakpoints   *)
(* set or not, and sent every stepping request and terminate afterwards.   *)
(***************************************************************************)
\* RestartFrameArguments.frameId: recorded frames, no number, an unknown id
NavigationFrameIds == SessionFrameIds \cup {7}

NextNavigation ==
    \/ LaunchRequest(MaxSessionPending)
    \/ LaunchLoaded(SessionTraces, LaunchArgs)
    \/ LaunchVisible
    \/ LaunchFailed
    \/ ContinueRequest
    \/ NextRequest
    \/ NoopStepRequest
    \/ ReverseStepRequest
    \/ RestartFrameRequest(NavigationFrameIds)
    \/ TerminateRequest
    \/ SetBreakPointsRequest(SessionSourcePaths, SessionLineArrays)

SpecNavigation == Init /\ [][NextNavigation]_vars

(***************************************************************************)
(* Breakpoints around the launch: the host submits breakpoints before and  *)
(* after a launch, under several spellings of one file, and launches again *)
(* at any time.  The session keeps every submission in _pendingBreakpoints *)
(* for as long as it lives, and every launch that loads a recording builds *)
(* a new runtime and replays that map into it.                             *)
(***************************************************************************)
\* SetBreakpointsArguments.source.path: two spellings of one file, and another
PendingPaths == {FileA, <<"", "a", ".", "x.ts">>, FileB}
PendingLineArrays == {<<>>, <<1>>, <<2>>}

NextPending ==
    \/ LaunchRequest(MaxSessionPending)
    \/ LaunchLoaded(SessionTraces, LaunchArgs)
    \/ LaunchVisible
    \/ SetBreakPointsRequest(PendingPaths, PendingLineArrays)

SpecPending == Init /\ [][NextPending]_vars

(***************************************************************************)
(* One query at a time: no request is sent while a handler is suspended,   *)
(* the loader fails or succeeds each time it is called, and the session is *)
(* walked, given breakpoints and asked again, for recorded names and for a *)
(* meta field.                                                             *)
(***************************************************************************)
NextRetry ==
    \/ LaunchRequest(MaxSessionPending)
    \/ LaunchLoaded(VariableTraces, VariableLaunchArgs)
    \/ LaunchVisible
    \/ NextRequest
    \/ RestartFrameRequest({1})
    \/ SetBreakPointsRequest(SessionSourcePaths, {<<1>>})
    \/ ScopesRequest({1}, MaxSessionHandles)
    \/ VariablesRequest(MaxSessionPending, MaxSessionHandles)
    \/ VariablesBuilt
    \/ VariablesResumed
    \/ EvaluateRequest(VariableExpressions, {1}, MaxSessionPending, MaxSessionHandles)
    \/ EvaluateLocals
    \/ EvaluateArguments
    \/ EvaluateResumed
    \/ LoadVariablesSettled

SpecRetry == Init /\ [][NextRetry]_vars

(***************************************************************************)
(* Every handler of the session, before a launch, after a failed one,      *)
(* while stopped and after the end, over one small recording.              *)
(***************************************************************************)
\* configurationDoneRequest
ConfigurationDoneRequest ==
    /\ Send("configurationDone", <<Response("configurationDone", "")>>)
    /\ UNCHANGED <<runtime, pendingBreakpoints, startLineHint, startSourcePathHint,
                   errorSummary, variableHandles, pending, launchFailed>>

NextAnswers ==
    \/ InitializeRequest
    \/ ConfigurationDoneRequest
    \/ LaunchRequest(MaxSessionPending)
    \/ LaunchLoaded(VariableTraces, VariableLaunchArgs)
    \/ LaunchVisible
    \/ LaunchFailed
    \/ ThreadsRequest
    \/ StackTraceRequest({<<NoNum, NoNum>>}, AnswerOptions, MaxSessionPending)
    \/ StackTraceResumed
    \/ ContinueRequest
    \/ NextRequest
    \/ NoopStepRequest
    \/ ReverseStepRequest
    \/ RestartFrameRequest({1, NoNum})
    \/ TerminateRequest
    \/ SetBreakPointsRequest(SessionSourcePaths, {<<1>>})
    \/ ExceptionInfoRequest
    \/ ScopesRequest({1}, MaxSessionHandles)
    \/ VariablesRequest(MaxSessionPending, MaxSessionHandles)
    \/ VariablesBuilt
    \/ VariablesResumed
    \/ EvaluateRequest(SessionExpressions, {1}, MaxSessionPending, MaxSessionHandles)
    \/ EvaluateLocals
    \/ EvaluateArguments
    \/ EvaluateResumed
    \/ LoadVariablesSettled

SpecAnswers == Init /\ [][NextAnswers]_vars

(***************************************************************************)
(* Properties of the runtime                                               *)
(***************************************************************************)
frameCount == Len(runtime.frames)

\* C1: in a runtime built from any frame list, after any sequence of
\* stepOnce, continueExecution, setCursorByFrameId, setCursorByLocation and
\* setBreakpoints calls, 0 <= cursor <= frameCount, and isTerminated() is
\* true exactly when the cursor is outside [0, frameCount).
C1_CursorInRange ==
    runtime.exists =>
        /\ 0 <= runtime.cursor
        /\ runtime.cursor <= frameCount
        /\ isTerminated(runtime) <=> ~(runtime.cursor \in 0..(frameCount - 1))

C1_Witness ==
    /\ runtime.exists
    /\ frameCount = MaxFrames
    /\ runtime.cursor = frameCount
    /\ last.op = "stepOnce"
    /\ last.before = frameCount - 1

\* C3: stepOnce and continueExecution never decrease the cursor, strictly
\* increase it when called from a non-terminated state, and only
\* setCursorByFrameId and setCursorByLocation move it to a smaller index.
C3_CursorMonotone ==
    /\ last.op \in {"stepOnce", "continueExecution"} =>
          /\ runtime.cursor >= last.before
          /\ last.before \in 0..(frameCount - 1) => runtime.cursor > last.before
    /\ (last.op # "new" /\ runtime.cursor < last.before) =>
          last.op \in {"setCursorByFrameId", "setCursorByLocation"}

C3_Witness ==
    /\ last.op = "continueExecution"
    /\ last.result.stopped
    /\ last.before = 0
    /\ runtime.cursor = 2
    /\ hitsBreakpoint(runtime, runtime.frames[1])

\* the frames beyond index c that match a stored breakpoint
MatchingBeyond(c) ==
    {i \in (c + 1)..(frameCount - 1) :
        LET f == runtime.frames[i + 1]
        IN  /\ f.file # NoPath
            /\ \E p \in DOMAIN runtime.breakpoints :
                  p = pathNormalize(f.file) /\ f.line \in runtime.breakpoints[p]}

\* C4: continueExecution() from cursor c moves the cursor to the smallest
\* index i > c whose frame matches a stored breakpoint and reports a stop
\* with reason breakpoint; when there is none it moves the cursor to
\* frameCount and reports terminated.
C4_ContinueLandsOnNext ==
    last.op = "continueExecution" =>
        LET m == MatchingBeyond(last.before)
        IN  IF m # {}
            THEN /\ runtime.cursor \in m
                 /\ \A i \in m : runtime.cursor <= i
                 /\ last.result = Stopped("breakpoint")
            ELSE /\ runtime.cursor = frameCount
                 /\ last.result = Terminated

C4_Witness ==
    /\ last.op = "continueExecution"
    /\ last.result = Stopped("breakpoint")
    /\ Cardinality(MatchingBeyond(last.before)) >= 2

C4_WitnessNone ==
    /\ last.op = "continueExecution"
    /\ last.result = Terminated
    /\ last.before = 0
    /\ frameCount = 3
    /\ DOMAIN runtime.breakpoints # {}

(***************************************************************************)
(* Properties of the session                                               *)
(***************************************************************************)
\* the three-frame trace whose crash-site frame alone carries a snapshot
C2Trace ==
    << [file |-> FileA, line |-> 0, snapshotId |-> "s1"],
       [file |-> <<"", "a", ".", "x.ts">>, line |-> 1, snapshotId |-> NoSnap],
       [file |-> <<"file:", "", "", "b", "y.ts">>, line |-> 0, snapshotId |-> NoSnap] >>

NoBreakpointLines == \A p \in DOMAIN runtime.breakpoints : runtime.breakpoints[p] = {}

\* k next requests in a row since that trace was launched without a start line
C2Run(k) ==
    /\ runtime.exists
    /\ runtime.frames = buildFrames(C2Trace)
    /\ NoBreakpointLines
    /\ nextRun = k

Sent(P(_)) == \E i \in DOMAIN out : P(out[i])

\* the statement of C2 as the specification words it: the launch leaves the
\* cursor on the crash-site frame, the first and the second next each send a
\* Stopped event and no Terminated event, and the third next terminates
\* with exactly one summary line.
C2_Original ==
    /\ C2Run(0) => runtime.cursor = 2
    /\ (C2Run(1) \/ C2Run(2)) => (Sent(IsStopped) /\ ~Sent(IsTerminatedEvent))
    /\ C2Run(3) => (Sent(IsTerminatedEvent) /\ summaryCount = 1)

\* C2 (amended): for a loaded trace of 3 frames of which only the crash-site
\* frame carries a snapshot, launched without start line or breakpoints, the
\* launch leaves the cursor on the crash-site frame (the last internal index)
\* and sends Stopped('entry'); the first next already terminates the
\* session: cursor = frameCount, a Terminated event, no Stopped event and
\* exactly one summary line in the session; further next requests send
\* Terminated again and no second summary line.
C2_FirstNextTerminates ==
    /\ C2Run(0) =>
          /\ runtime.cursor = 2
          /\ runtime.frames[runtime.cursor + 1].id = 0
          /\ out = <<Response("launch", ""), StoppedEvent("entry")>>
    /\ C2Run(1) =>
          /\ runtime.cursor = 3
          /\ Sent(IsTerminatedEvent) /\ ~Sent(IsStopped)
          /\ summaryCount = 1
    /\ (C2Run(2) \/ C2Run(3)) =>
          /\ runtime.cursor = 3
          /\ out = <<Response("next", ""), TerminatedEvent>>
          /\ summaryCount = 1

C2_Witness ==
    /\ C2Run(1)
    /\ out = <<Response("next", ""), OutputEvent(SummaryText("Recorded error")),
               TerminatedEvent>>

\* C5: over any sequence of requests to one session the summary line is sent
\* at most once, and a terminate request sends exactly one Terminated event;
\* on an already-terminated session it sends no second summary line.
C5_SummaryAtMostOnce ==
    /\ summaryCount <= 1
    /\ last.op = "terminate" =>
          /\ Count(out, IsTerminatedEvent) = 1
          /\ Count(out, IsSummary) <= 1

C5_Witness ==
    /\ last.op = "terminate"
    /\ runtime.exists /\ isTerminated(runtime)
    /\ summaryCount = 1
    /\ out = <<Response("terminate", ""), TerminatedEvent>>

\* summary lines sent before the i-th message of the last step
SummariesBefore(i) == summaryCount - Count(SubSeq(out, i, Len(out)), IsSummary)

\* the statement of C6 as the specification words it: every Terminated event
\* is preceded in the event stream by the single summary line.
C6_Original ==
    \A i \in DOMAIN out : IsTerminatedEvent(out[i]) => SummariesBefore(i) = 1

\* the two places that signal termination without the summary
TerminatesLiveSession ==
    last.op = "terminate" /\ runtime.exists /\ ~isTerminated(runtime)
NoopStepWithoutRuntime ==
    last.op \in {"stepIn", "stepOut"} /\ ~runtime.exists

\* C6 (amended): every Terminated event sent by launch, continue or next, by
\* stepIn/stepOut on a terminated runtime, or by a terminate request made
\* without a runtime or on a terminated runtime, is preceded in the event
\* stream by the single summary line.  A terminate request on a session that
\* is still stopped on a frame, and stepIn/stepOut before any launch, send
\* Terminated without sending the summary.
C6_SummaryBeforeTerminated ==
    \A i \in DOMAIN out :
        IsTerminatedEvent(out[i]) =>
            \/ SummariesBefore(i) = 1
            \/ TerminatesLiveSession
            \/ NoopStepWithoutRuntime

C6_Witness ==
    /\ last.op = "terminate"
    /\ ~runtime.exists
    /\ out = <<Response("terminate", ""), OutputEvent(SummaryText("undefined")),
               TerminatedEvent>>

\* the statement of C7 as the specification words it: once a launch has
\* failed, the failed launch is answered with an error response only, no
\* runtime exists, every stackTrace request returns an empty frame list and
\* no Stopped event is ever sent.
C7_Original ==
    launchFailed =>
        /\ last.op = "launch:failed" => out = <<ErrorResponse("launch", 1001)>>
        /\ ~runtime.exists
        /\ last.op = "stackTrace" => out = <<Response("stackTrace", <<>>)>>
        /\ ~Sent(IsStopped)

\* C7 (amended): a launch whose stack-trace load fails is answered with the
\* error response 1001 and nothing else, and leaves the runtime as it was (it
\* creates none); as long as the session has no runtime every stackTrace
\* request returns an empty frame list, and the only Stopped events are the
\* stay-in-place stops of stepBack, reverseContinue and restartFrame.  The
\* failure is not remembered: a later launch may succeed.
C7_FailedLaunchCreatesNothing ==
    [][ /\ last'.op = "launch:failed" =>
              /\ out' = <<ErrorResponse("launch", 1001)>>
              /\ runtime' = runtime
              /\ UNCHANGED <<pendingBreakpoints, terminationMessageSent, errorSummary,
                             variableHandles>>
        /\ (~runtime'.exists /\ last'.op = "stackTrace") =>
              out' = <<Response("stackTrace", <<>>)>>
        /\ (~runtime'.exists /\ \E i \in DOMAIN out' : IsStopped(out'[i])) =>
              last'.op \in {"stepBack", "reverseContinue", "restartFrame"}
      ]_vars

C7_Witness ==
    /\ launchFailed
    /\ ~runtime.exists
    /\ last.op = "stackTrace"
    /\ out = <<Response("stackTrace", <<>>)>>

\* C8: once a launch has succeeded, no request other than a launch is
\* answered with an error response, whatever the loader does and wherever
\* the cursor is.
C8_NoErrorAfterLaunch ==
    runtime.exists => \A i \in DOMAIN out : IsError(out[i]) => out[i].name = "launch"

C8_Witness ==
    /\ runtime.exists
    /\ isTerminated(runtime)
    /\ last.op = "exceptionInfo"
    /\ out = <<Response("exceptionInfo", "Recorded error")>>

(***************************************************************************)
(* Properties of the variable side                                         *)
(***************************************************************************)
MetaNames == {"snapshotId", "traceId", "spanId", "sourceObjectUri"}

NotAvailable == [result |-> "not available", node |-> NoNode, variablesReference |-> 0]

\* the handlers a step leaves suspended beyond those suspended before it
Joined == {t \in BagToSet(pending') : CopiesIn(t, pending') > CopiesIn(t, pending)}

\* the root of a dotted path names neither a meta field nor an inherited
\* property
PlainRoot(expr) ==
    /\ segmentsOf(expr) # <<>>
    /\ Head(segmentsOf(expr)) \notin MetaNames \cup PrototypeNames

\* a dotted path of one segment that names an inherited property
InheritedRoot(expr) ==
    /\ Len(segmentsOf(expr)) = 1
    /\ Head(segmentsOf(expr)) \in PrototypeNames

\* C9: when loadVariables rejects, the fetch yields the empty bundle and the
\* failure stays inside.  The step in which the rejection arrives sends
\* nothing (no error response), leaves the frames, the cursor, the
\* breakpoints and the termination state as they were, stores {locals: {},
\* arguments: {}} in the runtime that asked, and hands the handler on with
\* the empty part of the bundle.  A variables handler that holds an empty
\* record mints nothing and answers the empty list; an evaluate handler that
\* holds empty locals reads empty arguments from that cache entry, and with
\* both empty finds nothing but a meta field or a property every object
\* inherits, and answers `not available` for any other name.
C9_RejectedLoadIsEmptyBundle ==
    [][ /\ last'.op = "loadVariables:rejected" =>
              LET task == last'.arg
              IN  /\ runtime'.exists = runtime.exists
                  /\ runtime'.frames = runtime.frames
                  /\ runtime'.cursor = runtime.cursor
                  /\ runtime'.breakpoints = runtime.breakpoints
                  /\ UNCHANGED <<pendingBreakpoints, terminationMessageSent, summaryCount,
                                 errorSummary, variableHandles>>
                  /\ ~task.stale =>
                        /\ task.snapshotId \in DOMAIN runtime'.variablesCache
                        /\ runtime'.variablesCache[task.snapshotId] = EmptyBundle
                  /\ out' = <<>>
                  /\ \E t \in Joined :
                        /\ Joined = {t}
                        /\ t.kind = task.kind
                        /\ t.request = task.request
                        /\ t.expr = task.expr
                        /\ IF task.kind = "variables"
                           THEN t.stage = "record" /\ t.record = <<>>
                           ELSE IF task.which = "locals"
                           THEN t.stage = "locals" /\ t.locals = <<>>
                           ELSE /\ t.stage = "arguments"
                                /\ t.args = <<>>
                                /\ t.locals = task.locals
        /\ (last'.op = "variables:record" /\ last'.arg.record = <<>>) =>
              /\ Joined = {Handler("variables", "reply", last'.arg.request)}
              /\ UNCHANGED variableHandles
        /\ (last'.op = "variables:reply" /\ last'.arg.variables = <<>>) =>
              out' = <<Response("variables", <<>>)>>
        /\ (/\ last'.op = "evaluate:locals"
            /\ isCached(runtime, last'.arg.snapshotId)
            /\ runtime.variablesCache[last'.arg.snapshotId] = EmptyBundle) =>
              /\ out' = <<>>
              /\ Joined = {[last'.arg EXCEPT !.stage = "arguments", !.args = <<>>]}
        /\ (/\ last'.op = "evaluate:arguments"
            /\ last'.arg.locals = <<>> /\ last'.arg.args = <<>>
            /\ PlainRoot(last'.arg.expr)) =>
              \E t \in Joined : Joined = {t} /\ t.stage = "node" /\ t.node = NoNode
        /\ (/\ last'.op = "evaluate:arguments"
            /\ last'.arg.locals = <<>> /\ last'.arg.args = <<>>
            /\ InheritedRoot(last'.arg.expr)) =>
              \E t \in Joined : Joined = {t} /\ t.stage = "node" /\ t.node = Inherited
        /\ last'.op = "evaluate:reply" =>
              /\ Len(out') = 1
              /\ ~IsError(out'[1])
              /\ last'.arg.node = NoNode => out' = <<Response("evaluate", NotAvailable)>>
      ]_vars

\* the loader has rejected the fetch of an evaluate request: the empty bundle
\* is cached and the handler goes on with empty locals
C9_Witness ==
    /\ last.op = "loadVariables:rejected"
    /\ last.arg.kind = "evaluate"
    /\ last.arg.expr = <<"x">>
    /\ ~last.arg.stale
    /\ out = <<>>
    /\ runtime.exists /\ ~isTerminated(runtime)
    /\ runtime.variablesCache[last.arg.snapshotId] = EmptyBundle
    /\ \E t \in BagToSet(pending) :
          t.kind = "evaluate" /\ t.stage = "locals" /\ t.locals = <<>>

\* that evaluate request is answered `not available`
C9_WitnessAnswered ==
    /\ last.op = "evaluate:reply"
    /\ last.arg.expr = <<"x">>
    /\ out = <<Response("evaluate", NotAvailable)>>
    /\ runtime.exists
    /\ isCached(runtime, last.arg.snapshotId)
    /\ runtime.variablesCache[last.arg.snapshotId] = EmptyBundle

\* the statement of C10 as the specification words it: within one session
\* loadVariables is called at most once for a snapshot identifier.
C10_Original ==
    [][ \A i \in DOMAIN out' :
            IsLoadCall(out'[i]) => out'[i].body \notin loadedIds ]_vars

\* C10 (amended): loadVariables is never called for a snapshot identifier
\* whose bundle the runtime has cached, and a runtime never drops a cached
\* bundle: once a fetch for an identifier has settled, every later locals,
\* arguments or evaluate query for it on that runtime is served from the
\* cache.  Queries that arrive while the first fetch for the identifier is
\* still pending each call the loader, and a relaunch starts a runtime with
\* an empty cache.
C10_CachedNeverReloaded ==
    [][ /\ \A i \in DOMAIN out' :
              IsLoadCall(out'[i]) =>
                  /\ out'[i].body \notin DOMAIN runtime.variablesCache
                  /\ out'[i].body \notin DOMAIN runtime'.variablesCache
        /\ last'.op # "launch:loaded" =>
              DOMAIN runtime.variablesCache \subseteq DOMAIN runtime'.variablesCache
      ]_vars

\* an evaluate request for a snapshot that was loaded before is under way
\* with the cached locals and without a call of the loader
C10_Witness ==
    /\ last.op = "evaluate"
    /\ out = <<>>
    /\ "s1" \in loadedIds
    /\ "s1" \in DOMAIN runtime.variablesCache
    /\ \E t \in BagToSet(pending) :
          /\ t.kind = "evaluate" /\ t.stage = "locals"
          /\ t.snapshotId = "s1"
          /\ t.locals = runtime.variablesCache["s1"].locals
          /\ t.locals # <<>>

\* the fetches of a snapshot that are suspended on the data source for the
\* runtime in use
LiveFetches(bag, snapshotId) ==
    LET live == {t \in BagToSet(bag) :
                    IsFetch(t) /\ ~t.stale /\ t.snapshotId = snapshotId}
        RECURSIVE Copies(_)
        Copies(S) == IF S = {} THEN 0
                     ELSE LET t == CHOOSE t \in S : TRUE
                          IN  CopiesIn(t, bag) + Copies(S \ {t})
    IN  Copies(live)

\* the snapshot a variables or evaluate request is about to fetch, NoSnap when
\* it goes on without the loader: a locals or arguments scope of the current
\* snapshot, or an evaluate of a non-empty expression on the cursor's frame
FetchTarget ==
    IF ~runtime.exists THEN NoSnap
    ELSE IF last'.op = "variables"
    THEN LET container == handlesGet(variableHandles, last'.arg)
         IN  IF /\ container.kind \in {"locals", "arguments"}
                /\ container.snapshotId = getCurrentSnapshotId(runtime)
                /\ ~isCached(runtime, container.snapshotId)
             THEN container.snapshotId ELSE NoSnap
    ELSE IF last'.op = "evaluate" /\ segmentsOf(last'.arg.expr) # <<>>
    THEN LET snapshotId == getSnapshotIdForFrame(runtime, currentFrameIndex(runtime))
         IN  IF isCached(runtime, snapshotId) THEN NoSnap ELSE snapshotId
    ELSE NoSnap

\* C11: concurrent requests for one uncached snapshot are not deduplicated.
\* A variables or evaluate request for snapshot S that arrives while S is not
\* cached calls the loader for S, also when a fetch for S is already pending:
\* the step sends exactly one loadVariables call for S and leaves one more
\* fetch for S suspended, so two fetches for S are pending at once.
C11_PendingFetchNotDeduplicated ==
    [][ (last'.op \in {"variables", "evaluate"} /\ FetchTarget # NoSnap) =>
            /\ Len(out') = 1
            /\ IsLoadCall(out'[1])
            /\ out'[1].body = FetchTarget
            /\ LiveFetches(pending', FetchTarget) = LiveFetches(pending, FetchTarget) + 1
      ]_vars

C11_Witness ==
    /\ last.op \in {"variables", "evaluate"}
    /\ Len(out) = 1 /\ IsLoadCall(out[1])
    /\ LiveFetches(pending, out[1].body) = 2
    /\ out[1].body \notin DOMAIN runtime.variablesCache

\* the statement of C12 as the specification words it: a cached bundle is
\* never removed and never replaced by a different one.
C12_Original ==
    [][ \A s \in DOMAIN runtime.variablesCache :
            /\ s \in DOMAIN runtime'.variablesCache
            /\ runtime'.variablesCache[s] = runtime.variablesCache[s] ]_vars

\* C12 (amended): for the life of a runtime a cached bundle is never removed,
\* and it is replaced only when another fetch for the same snapshot, begun
\* by that runtime before the entry was stored, settles: the result of the
\* fetch that settles last is the one the cache keeps.  No variables, evaluate
\* or navigation request and no other continuation changes an entry, and with
\* no fetch for the snapshot pending the entry stays as it is.  A relaunch
\* starts a new runtime with an empty cache.
C12_CacheKeptUntilLaterFetchSettles ==
    [][ last'.op # "launch:loaded" =>
            \A s \in DOMAIN runtime.variablesCache :
                /\ s \in DOMAIN runtime'.variablesCache
                /\ runtime'.variablesCache[s] # runtime.variablesCache[s] =>
                       /\ last'.op \in {"loadVariables:rejected", "loadVariables:resolved"}
                       /\ last'.arg.snapshotId = s
                       /\ ~last'.arg.stale
                       /\ LiveFetches(pending, s) > 0
                       /\ LiveFetches(pending', s) = LiveFetches(pending, s) - 1
      ]_vars

\* a second fetch for a cached snapshot has settled and replaced the bundle
C12_Witness ==
    /\ last.op = "loadVariables:rejected"
    /\ ~last.arg.stale
    /\ last.before = 2
    /\ "s1" \in DOMAIN runtime.variablesCache
    /\ runtime.variablesCache["s1"] = EmptyBundle
    /\ LiveFetches(pending, "s1") = 0
    /\ out = <<>>

\* the container a variables request names, and whether it names a snapshot
\* other than the one of the frame the cursor is on
Requested == handlesGet(variableHandles, last'.arg)

NamesOtherSnapshot ==
    /\ last'.op = "variables"
    /\ runtime.exists
    /\ Requested.snapshotId # NoSnap
    /\ Requested.snapshotId # getCurrentSnapshotId(runtime)

\* the variables are the one placeholder entry
IsPlaceholder(variables) ==
    /\ Len(variables) = 1
    /\ variables[1].name = "(inactive frame)"
    /\ variables[1].variablesReference = 0
    /\ variables[1].node.fields = <<>>

\* the request is left suspended on resolveVariables with its variables at
\* hand; nothing is sent, loaded, cached or minted
HeldWith(P(_)) ==
    /\ out' = <<>>
    /\ \E t \in Joined :
          /\ Joined = {t}
          /\ t.kind = "variables" /\ t.stage = "reply"
          /\ t.request.reference = last'.arg
          /\ P(t.variables)
    /\ UNCHANGED <<runtime, variableHandles, loadedIds>>

\* the four meta fields of the snapshot the request names
IsMetaOfRequested(variables) ==
    /\ [i \in DOMAIN variables |-> variables[i].name] =
           <<"snapshotId", "traceId", "spanId", "sourceObjectUri">>
    /\ variables[1].node.value = Str(Requested.snapshotId)

\* the statement of C13 as the specification words it: every scope handle
\* that names another snapshot is answered with the placeholder.
C13_Original ==
    [][ /\ (NamesOtherSnapshot /\ Requested.kind \in {"locals", "arguments", "meta"}) =>
              HeldWith(IsPlaceholder)
        /\ last'.op = "variables:reply" =>
              out' = <<Response("variables", last'.arg.variables)>> ]_vars

\* C13 (amended): a variables request whose Locals or Arguments scope handle
\* names a snapshot identifier different from the snapshot of the frame the
\* cursor is on is answered with exactly one placeholder entry
\* (`(inactive frame)`, variablesReference 0) and no recorded data, also when
\* the snapshot is cached: the request does not call the loader and mints no
\* handle, it holds the placeholder from its first step on, and its response
\* carries what it holds.  A Replay Meta scope handle for such a snapshot is
\* answered with the four meta fields of that snapshot, without the loader.
C13_InactiveScopeIsPlaceholder ==
    [][ /\ (NamesOtherSnapshot /\ Requested.kind \in {"locals", "arguments"}) =>
              HeldWith(IsPlaceholder)
        /\ (NamesOtherSnapshot /\ Requested.kind = "meta") =>
              HeldWith(IsMetaOfRequested)
        /\ last'.op = "variables:reply" =>
              /\ out' = <<Response("variables", last'.arg.variables)>>
              /\ UNCHANGED <<runtime, variableHandles, loadedIds>>
      ]_vars

\* an Arguments scope of a cached snapshot was asked for after the cursor had
\* moved to a frame without that snapshot, and is answered with the
\* placeholder
C13_Witness ==
    /\ last.op = "variables:reply"
    /\ runtime.exists
    /\ handlesGet(variableHandles, last.arg.request.reference).kind = "arguments"
    /\ handlesGet(variableHandles, last.arg.request.reference).snapshotId = "s1"
    /\ getCurrentSnapshotId(runtime) # "s1"
    /\ "s1" \in DOMAIN runtime.variablesCache
    /\ runtime.variablesCache["s1"] # EmptyBundle
    /\ Len(out) = 1 /\ IsPlaceholder(out[1].body)

(***************************************************************************)
(* Properties of the unsupported steps                                     *)
(***************************************************************************)
UnsupportedSteps == {"stepIn", "stepOut", "stepBack", "reverseContinue"}

\* C14: stepIn, stepOut, stepBack and reverseContinue leave the state as it
\* is in every session state: the runtime (frames, cursor, breakpoint sets,
\* variable cache), the breakpoints held for the next launch, the start
\* hints, the variable handles, the suspended fetches and the
\* termination-message flag are the same after the request as before it.
C14_UnsupportedStepsChangeNothing ==
    [][ last'.op \in UnsupportedSteps =>
            /\ runtime' = runtime
            /\ terminationMessageSent' = terminationMessageSent
            /\ summaryCount' = summaryCount
            /\ UNCHANGED <<pendingBreakpoints, startLineHint, startSourcePathHint,
                           errorSummary, variableHandles, pending>>
      ]_vars

\* a stepOut on a live session that has breakpoints and a cached bundle
C14_Witness ==
    /\ last.op = "stepOut"
    /\ runtime.exists /\ ~isTerminated(runtime)
    /\ DOMAIN runtime.breakpoints # {}
    /\ DOMAIN runtime.variablesCache # {}

\* a stepIn before any launch: nothing is created and no summary is sent
C14_WitnessNoRuntime ==
    /\ last.op = "stepIn"
    /\ ~runtime.exists
    /\ ~terminationMessageSent
    /\ Count(out, IsTerminatedEvent) = 1

IsOutput(m) == m.kind = "event" /\ m.name = "output"
IsSuccess(m) == m.kind = "response" /\ m.name = last.op

\* what one request was answered with: a success response, and so many
\* output, Stopped and Terminated events, and no error response
AnsweredWith(outputs, stops, ends) ==
    /\ Count(out, IsSuccess) = 1
    /\ Count(out, IsError) = 0
    /\ Count(out, IsOutput) = outputs
    /\ Count(out, IsStopped) = stops
    /\ Count(out, IsTerminatedEvent) = ends
    /\ Len(out) = 1 + outputs + stops + ends

\* the statement of C15 as the specification words it: in every session state
\* each of the four requests gets a success response, one output notification
\* and one Stopped event.
C15_Original ==
    last.op \in UnsupportedSteps => AnsweredWith(1, 1, 0)

\* C15 (amended): each stepBack and reverseContinue request, in every session
\* state, and each stepIn and stepOut request received while a runtime exists
\* and is not terminated, is accepted with a success response and produces
\* exactly one explanatory output notification and exactly one Stopped event.
\* A stepIn or stepOut request received before a runtime exists or after the
\* replay has terminated is accepted with a success response and produces
\* exactly one Terminated event, no output notification and no Stopped event.
\* None of the four is ever answered with an error.
C15_UnsupportedStepsAnswer ==
    /\ last.op \in {"stepBack", "reverseContinue"} => AnsweredWith(1, 1, 0)
    /\ last.op \in {"stepIn", "stepOut"} =>
           IF runtime.exists /\ ~isTerminated(runtime)
           THEN AnsweredWith(1, 1, 0)
           ELSE AnsweredWith(0, 0, 1)

\* stepBack on a terminated session still reports a stop
C15_Witness ==
    /\ last.op = "stepBack"
    /\ runtime.exists /\ isTerminated(runtime)
    /\ AnsweredWith(1, 1, 0)

\* stepIn on a terminated session signals the end instead
C15_WitnessTerminated ==
    /\ last.op = "stepIn"
    /\ runtime.exists /\ isTerminated(runtime)
    /\ AnsweredWith(0, 0, 1)

(***************************************************************************)
(* More properties of the runtime                                          *)
(***************************************************************************)
\* the internal indices of the frames whose id is F
IndicesOf(F) == {i \in 0..(frameCount - 1) : runtime.frames[i + 1].id = F}

\* C16: setCursorByFrameId(F), from any cursor value including the terminal
\* one: if some frame has id F the cursor becomes exactly the internal index
\* of that frame, which is frameCount - 1 - F because ids are positions in
\* the recorded order; if no frame has id F the cursor is unchanged.
C16_SetCursorByFrameId ==
    last.op = "setCursorByFrameId" =>
        IF IndicesOf(last.arg) # {}
        THEN /\ IndicesOf(last.arg) = {runtime.cursor}
             /\ runtime.cursor = frameCount - 1 - last.arg
        ELSE runtime.cursor = last.before

\* from the terminal cursor back to the frame recorded second
C16_Witness ==
    /\ last.op = "setCursorByFrameId"
    /\ frameCount = MaxFrames
    /\ last.before = frameCount
    /\ last.arg = 1
    /\ runtime.cursor = frameCount - 2

\* an unknown id leaves a cursor in the middle alone
C16_WitnessUnknown ==
    /\ last.op = "setCursorByFrameId"
    /\ frameCount = 2
    /\ last.arg = 2
    /\ last.before = 1
    /\ runtime.cursor = 1

\* C17: when the cursor is on the last valid frame (cursor = frameCount - 1)
\* the next stepOnce call reports terminated and sets the cursor to
\* frameCount, whatever the breakpoints and the reason argument are.
C17_StepFromLastFrameTerminates ==
    (last.op = "stepOnce" /\ last.before = frameCount - 1) =>
        /\ last.result = Terminated
        /\ runtime.cursor = frameCount
        /\ isTerminated(runtime)

\* a step with a reason from the last frame, which itself matches a breakpoint
C17_Witness ==
    /\ last.op = "stepOnce"
    /\ last.arg = "next"
    /\ frameCount >= 2
    /\ last.before = frameCount - 1
    /\ hitsBreakpoint(runtime, runtime.frames[frameCount])
    /\ last.result.terminated

\* the internal indices of the frames that carry a snapshot identifier
WithSnapshot == {i \in 0..(frameCount - 1) : runtime.frames[i + 1].snapshotId # NoSnap}

Highest(S) == CHOOSE i \in S : \A j \in S : j <= i

\* the statement of C18 as the specification words it: with no frame that
\* carries a snapshot identifier the cursor is frameCount - 1, for every
\* frame list.
C18_Original ==
    last.op = "new" =>
        IF WithSnapshot # {}
        THEN runtime.cursor = Highest(WithSnapshot)
        ELSE runtime.cursor = frameCount - 1

\* C18 (amended): after construction from a non-empty frame list the cursor
\* is the internal index of the first frame carrying a snapshot identifier
\* when scanning from the crash-site frame (internal last index) towards
\* index 0, and the crash-site frame's index (frameCount - 1) if no frame
\* carries one; after construction from an empty frame list the cursor is 0,
\* which is already the terminal position.
C18_InitialCursor ==
    last.op = "new" =>
        IF frameCount = 0 THEN runtime.cursor = 0 /\ isTerminated(runtime)
        ELSE IF WithSnapshot # {}
        THEN runtime.cursor = Highest(WithSnapshot)
        ELSE runtime.cursor = frameCount - 1

\* the crash site has no snapshot, a frame further out has one
C18_Witness ==
    /\ last.op = "new"
    /\ frameCount = MaxFrames
    /\ runtime.frames[frameCount].snapshotId = NoSnap
    /\ runtime.frames[frameCount - 1].snapshotId # NoSnap
    /\ runtime.cursor = frameCount - 2

\* no frame has a snapshot: the cursor starts on the crash site
C18_WitnessNone ==
    /\ last.op = "new"
    /\ frameCount = 2
    /\ WithSnapshot = {}
    /\ runtime.cursor = 1

\* the internal index of a frame: ids are positions in the recorded order
IndexOfFrame(f) == frameCount - 1 - f.id

\* C19: getOrderedFrames() answers exactly the frames at internal indices
\* 0..cursor in reversed order, the frame at the cursor first and the frame
\* at index 0 last; it never contains a frame at an index greater than the
\* cursor, and for a non-terminated cursor its length is cursor + 1 (for the
\* terminal cursor it is the whole list).
C19_OrderedFramesUpToCursor ==
    LET ordered == getOrderedFrames(runtime)
        n == Min(runtime.cursor + 1, frameCount)
    IN  runtime.exists =>
            /\ Len(ordered) = n
            /\ \A k \in 1..n : /\ ordered[k] = runtime.frames[n - k + 1]
                                /\ IndexOfFrame(ordered[k]) = n - k
                                /\ IndexOfFrame(ordered[k]) <= runtime.cursor
            /\ ~isTerminated(runtime) => Len(ordered) = runtime.cursor + 1

\* the cursor was moved back to the middle of a full list
C19_Witness ==
    /\ last.op = "setCursorByFrameId"
    /\ frameCount = MaxFrames
    /\ runtime.cursor = 1
    /\ Len(getOrderedFrames(runtime)) = 2
    /\ getOrderedFrames(runtime)[1] = runtime.frames[2]
    /\ getOrderedFrames(runtime)[2] = runtime.frames[1]

\* the frame at internal index i has a file, and the stored breakpoints of
\* that file hold its line
MatchesBreakpoint(i) ==
    LET f == runtime.frames[i + 1]
    IN  /\ f.file # NoPath
        /\ \E p \in DOMAIN runtime.breakpoints :
              p = pathNormalize(f.file) /\ f.line \in runtime.breakpoints[p]

\* C20: a stepOnce(reason) call that does not terminate moves the cursor one
\* frame on and reports stop-reason `breakpoint` exactly when the frame it
\* landed on matches a stored breakpoint; otherwise it reports the reason
\* the caller supplied, or `step` when none was supplied.
C20_StepReason ==
    (last.op = "stepOnce" /\ ~last.result.terminated) =>
        /\ last.result.stopped
        /\ runtime.cursor = last.before + 1
        /\ runtime.cursor < frameCount
        /\ (last.result.reason = "breakpoint") <=> MatchesBreakpoint(runtime.cursor)
        /\ ~MatchesBreakpoint(runtime.cursor) =>
               last.result.reason = (IF last.arg = NoReason THEN "step" ELSE last.arg)

\* a step with reason `next` lands on a frame with a breakpoint
C20_Witness ==
    /\ last.op = "stepOnce"
    /\ last.arg = "next"
    /\ last.result.stopped
    /\ last.result.reason = "breakpoint"
    /\ MatchesBreakpoint(runtime.cursor)

\* a step with reason `next` lands on a frame of a file that has breakpoints
\* on other lines only
C20_WitnessOtherLine ==
    /\ last.op = "stepOnce"
    /\ last.arg = "next"
    /\ last.result.stopped
    /\ last.result.reason = "next"
    /\ runtime.frames[runtime.cursor + 1].file # NoPath
    /\ pathNormalize(runtime.frames[runtime.cursor + 1].file) \in DOMAIN runtime.breakpoints

\* a step without a reason lands on a frame without a breakpoint
C20_WitnessDefault ==
    /\ last.op = "stepOnce"
    /\ last.arg = NoReason
    /\ last.result.stopped
    /\ last.result.reason = "step"

\* C21: breakpoint sets are replaced per path.  After setBreakpoints(p, L)
\* the set stored for the normalized path p is exactly the set of the lines
\* in L, so a frame of that file matches exactly when its line is in L, and
\* the sets of all other paths are as they were.  A call without a path
\* stores nothing.
C21_BreakpointsReplacedPerPath ==
    [][ last'.op = "setBreakpoints" =>
            LET p == last'.arg.path
                L == last'.arg.lines
                key == pathNormalize(p)
            IN  IF p = NoPath
                THEN runtime'.breakpoints = runtime.breakpoints
                ELSE /\ DOMAIN runtime'.breakpoints = DOMAIN runtime.breakpoints \cup {key}
                     /\ runtime'.breakpoints[key] = {L[i] : i \in DOMAIN L}
                     /\ \A q \in DOMAIN runtime.breakpoints :
                            q # key => runtime'.breakpoints[q] = runtime.breakpoints[q]
                     /\ \A i \in 1..frameCount :
                            LET f == runtime'.frames[i]
                            IN  (f.file # NoPath /\ pathNormalize(f.file) = key) =>
                                    (hitsBreakpoint(runtime', f) <=>
                                        \E j \in DOMAIN L : L[j] = f.line)
      ]_vars

\* the empty array, submitted under another spelling of a path whose frame
\* is in the list, while a second path keeps its own lines
C21_Witness ==
    /\ last.op = "setBreakpoints"
    /\ last.arg.path = <<"", "a", "b", "..", "x.ts">>
    /\ last.arg.lines = <<>>
    /\ DOMAIN runtime.breakpoints = {FileA, FileB}
    /\ runtime.breakpoints[FileA] = {}
    /\ runtime.breakpoints[FileB] = {1, 2}
    /\ \E i \in 1..frameCount : runtime.frames[i].file = FileA

(***************************************************************************)
(* Properties of launch, stackTrace and the handles                        *)
(***************************************************************************)
\* the internal indices of the frames a launch hint names
HintMatches(frames, hintPath, hintLine) ==
    {i \in 0..(Len(frames) - 1) :
        /\ frames[i + 1].line = hintLine
        /\ hintPath # NoPath =>
               pathNormalize(frames[i + 1].file) = pathNormalize(hintPath)}

Lowest(S) == CHOOSE i \in S : \A j \in S : i <= j

\* C22: when launch carries a start line (and optionally a source path) the
\* cursor is moved to the first internal frame whose line equals the hint
\* and whose normalized path equals the hint path (the path is ignored when
\* none is given), or is left at the initial cursor when no frame matches.
\* The hint is applied once, during launch, and is cleared afterwards:
\* between requests no start line is held, and after launch the cursor
\* moves only by next, continue and restartFrame.
C22_LaunchHint ==
    [][ /\ (last'.op = "launch:loaded" /\ last'.arg.startLine # NoNum) =>
              LET frames == runtime'.frames
                  hits == HintMatches(frames, last'.arg.startSourcePath,
                                      last'.arg.startLine)
              IN  /\ runtime'.cursor = IF hits # {} THEN Lowest(hits)
                                       ELSE findInitialFrame(frames)
                  /\ startLineHint' = NoNum
                  /\ startSourcePathHint' = NoPath
        /\ startLineHint = NoNum
        /\ (runtime.exists /\ runtime'.cursor # runtime.cursor) =>
              last'.op \in {"launch:loaded", "next", "continue", "restartFrame"}
      ]_vars

\* a start line without a path moved the cursor off the initial frame
C22_Witness ==
    /\ last.op = "launch:loaded"
    /\ last.arg.startLine = 1
    /\ last.arg.startSourcePath = NoPath
    /\ frameCount = 3
    /\ findInitialFrame(runtime.frames) = 2
    /\ runtime.cursor = 0
    /\ startLineHint = NoNum

\* a start line with a path skipped an earlier frame of another file
C22_WitnessPath ==
    /\ last.op = "launch:loaded"
    /\ last.arg.startLine = 1
    /\ last.arg.startSourcePath = FileA
    /\ frameCount = 3
    /\ runtime.frames[1].line = 1
    /\ runtime.cursor = 2

\* the frames a stackTrace request asks for: the frames up to the cursor,
\* innermost first, cut to the window startFrame, levels
VisibleFrames(window) ==
    LET n == Min(runtime.cursor + 1, frameCount)
        ordered == [k \in 1..n |-> runtime.frames[n - k + 1]]
        start == IF window[1] = NoNum THEN 0 ELSE window[1]
        levels == IF window[2] = NoNum THEN frameCount ELSE window[2]
        upto == Min(start + levels, n)
    IN  [k \in 1..Max(upto - start, 0) |-> ordered[start + k]]

\* C23: a stackTrace response for a launched, non-terminated session is
\* never an empty stack because of the skip predicate.  The handler reads the
\* visible list where the request arrives and is suspended with the frames of
\* its response: when the predicate rejects every frame of the visible list
\* the unfiltered list, and otherwise exactly the frames the predicate did
\* not reject, in their original order; without a predicate the visible
\* list.  Its response carries those frames.
C23_SkipNeverEmptiesStack ==
    [][ /\ (last'.op = "stackTrace" /\ runtime.exists /\ ~isTerminated(runtime)) =>
              LET visible == VisibleFrames(last'.arg.window)
                  rejected(f) == last'.arg.hasPredicate /\ f.file \in last'.arg.skipped
                  kept == SelectSeq(visible, LAMBDA f : ~rejected(f))
                  ids(frames) == [k \in DOMAIN frames |-> frames[k].id]
              IN  /\ out' = <<>>
                  /\ \E t \in Joined :
                        /\ Joined = {t}
                        /\ t.kind = "stackTrace"
                        /\ t.request.window = last'.arg.window
                        /\ t.frames = IF kept = <<>> THEN ids(visible) ELSE ids(kept)
                        /\ visible # <<>> => t.frames # <<>>
        /\ last'.op = "stackTrace:reply" =>
              out' = <<Response("stackTrace", last'.arg.frames)>>
      ]_vars

\* every frame of a window of two was rejected, and both are answered
C23_Witness ==
    /\ last.op = "stackTrace:reply"
    /\ runtime.exists /\ ~isTerminated(runtime)
    /\ last.arg.request.hasPredicate
    /\ last.arg.request.window = <<0, 2>>
    /\ Len(VisibleFrames(<<0, 2>>)) = 2
    /\ \A k \in 1..2 : VisibleFrames(<<0, 2>>)[k].file \in last.arg.request.skipped
    /\ out = <<Response("stackTrace",
                        [k \in 1..2 |-> VisibleFrames(<<0, 2>>)[k].id])>>

\* some frames were rejected and the others are answered in order
C23_WitnessSome ==
    /\ last.op = "stackTrace:reply"
    /\ runtime.exists /\ ~isTerminated(runtime)
    /\ last.arg.request.window = <<NoNum, NoNum>>
    /\ last.arg.request.skipped = {FileA}
    /\ runtime.cursor = 2
    /\ out = <<Response("stackTrace", <<2>>)>>

\* the references a message hands to the client, in the order it lists them
ReferencesOf(m) ==
    IF m.kind # "response" THEN <<>>
    ELSE IF m.name = "scopes" THEN m.body
    ELSE IF m.name = "variables"
    THEN LET given == SelectSeq(m.body, LAMBDA v : v.variablesReference # 0)
         IN  [k \in DOMAIN given |-> given[k].variablesReference]
    ELSE IF m.name = "evaluate" /\ m.body.variablesReference # 0
    THEN <<m.body.variablesReference>>
    ELSE <<>>

\* the references of the variables a handler holds for its response
ReferencesIn(variables) ==
    LET given == SelectSeq(variables, LAMBDA v : v.variablesReference # 0)
    IN  [k \in DOMAIN given |-> given[k].variablesReference]

\* the references a step mints, as it lists them: those of the response of
\* scopes and of evaluate, and those of the variables that variablesRequest
\* builds and holds until its response
Minted ==
    IF last'.op \in {"scopes", "evaluate:reply"}
    THEN {ReferencesOf(out'[i]) : i \in DOMAIN out'}
    ELSE IF last'.op \in {"variables", "variables:record"}
    THEN {ReferencesIn(t.variables) : t \in Joined}
    ELSE {}

\* C24: variable handles are never reused or invalidated.  Handles are
\* minted by scopes, variables and evaluate only; every handle a step mints
\* differs from every handle minted earlier in the session and from the
\* other handles of the same step, a variables response hands out the
\* handles its handler minted, and a handle once minted resolves to the same
\* container (kind, snapshot id, fields) after every later step, a relaunch
\* included.
C24_HandlesNeverReused ==
    [][ /\ \A h \in StartHandle..(StartHandle + Len(variableHandles) - 1) :
              handlesGet(variableHandles', h) = handlesGet(variableHandles, h)
        /\ Len(variableHandles') > Len(variableHandles) => Minted # {}
        /\ \A refs \in Minted :
              /\ Len(refs) = Len(variableHandles') - Len(variableHandles)
              /\ \A k \in DOMAIN refs :
                    /\ handlesGet(variableHandles, refs[k]) = NoContainer
                    /\ handlesGet(variableHandles', refs[k]) # NoContainer
              /\ \A k, l \in DOMAIN refs : k # l => refs[k] # refs[l]
        /\ last'.op = "variables:reply" =>
              /\ out' = <<Response("variables", last'.arg.variables)>>
              /\ \A k \in DOMAIN ReferencesIn(last'.arg.variables) :
                    handlesGet(variableHandles, ReferencesIn(last'.arg.variables)[k]).kind
                        = "object"
      ]_vars

\* an evaluate response hands out the handle it minted for the object a,
\* the last of eight: before it scopes has minted twice, the second time
\* after the three scope handles and the handle of an object
C24_Witness ==
    /\ last.op = "evaluate:reply"
    /\ Len(variableHandles) = 8
    /\ ReferencesOf(out[1]) = <<StartHandle + 7>>
    /\ handlesGet(variableHandles, StartHandle + 7).kind = "object"
    /\ handlesGet(variableHandles, StartHandle).kind = "locals"
    /\ handlesGet(variableHandles, StartHandle + 3).kind = "object"
    /\ handlesGet(variableHandles, StartHandle + 4).kind = "locals"
    /\ handlesGet(variableHandles, StartHandle + 6).kind = "meta"

\* a variables response hands out the handle of an object, minted after the
\* three scope handles and a handle that evaluate minted
C24_WitnessVariables ==
    /\ last.op = "variables:reply"
    /\ Len(variableHandles) = 5
    /\ ReferencesOf(out[1]) = <<StartHandle + 4>>
    /\ handlesGet(variableHandles, StartHandle + 4).kind = "object"
    /\ handlesGet(variableHandles, StartHandle).kind = "object"
    /\ handlesGet(variableHandles, StartHandle + 1).kind = "locals"

\* C25: the normalized frame list is built once at launch and is read-only
\* afterwards.  No step other than the completion of a launch (navigation,
\* breakpoints, stackTrace, scopes, variables, evaluate, terminate, a settled
\* fetch) changes the number, order or contents of the frames.
C25_FramesReadOnly ==
    [][ last'.op # "launch:loaded" => runtime'.frames = runtime.frames ]_vars

\* the cursor has moved off its initial frame, breakpoints are set, a bundle
\* is cached, a stackTrace request has been answered, and the frames are
\* those the launch built
C25_Witness ==
    /\ runtime.exists
    /\ frameCount = 2
    /\ runtime.cursor = 1
    /\ runtime.cursor # findInitialFrame(runtime.frames)
    /\ runtime.breakpoints # <<>>
    /\ isCached(runtime, "s1")
    /\ last.op = "stackTrace:reply"
    /\ \A i \in 1..2 : runtime.frames[i].id = 2 - i

\* C26: a continue request jumps to the next recorded frame or to the next
\* breakpoint.  From a non-terminated cursor with at least one recorded frame
\* beyond it, continueExecution reports a stop, on the nearest breakpoint
\* frame beyond the cursor when there is one and on the next recorded frame
\* otherwise, and does not terminate.
C26_ContinueStopsWhileFramesRemain ==
    (last.op = "continueExecution" /\ last.before \in 0..(frameCount - 2)) =>
        LET m == MatchingBeyond(last.before)
        IN  /\ last.result # Terminated
            /\ runtime.cursor = IF m # {} THEN Lowest(m) ELSE last.before + 1

NavigationOps == {"next", "continue", "restartFrame", "setBreakpoints"}

\* the steps in which a suspended variables or evaluate handler goes on after
\* an await that was over at once, and those among them that send its response
ContinuationOps ==
    {"variables:record", "variables:reply", "evaluate:locals", "evaluate:arguments",
     "evaluate:reply"}
ReplyOps == {"variables:reply", "evaluate:reply"}

\* the one message of the step is the response to the command
RepliesTo(command, msgs) ==
    /\ Len(msgs) = 1
    /\ msgs[1].kind = "response" /\ msgs[1].name = command

\* C27: a pending variable fetch does not block other work.  While the
\* loader call for snapshot A is unsettled, a navigation request (next,
\* continue, restartFrame, setBreakpoints) is answered in its own step; a
\* variables or evaluate request is taken up at once, and when it needs a
\* different uncached snapshot B it makes its own loader call and one more
\* fetch for B is suspended; the fetch for B settles, the handler that waited
\* for it goes on and sends its response; all with the fetch for A left
\* suspended as it was.
C27_PendingFetchDoesNotBlock ==
    [][ \A t \in BagToSet(pending) :
          (IsFetch(t) /\ ~t.stale) =>
            /\ last'.op \in NavigationOps =>
                  /\ CopiesIn(t, pending') = CopiesIn(t, pending)
                  /\ \E i \in DOMAIN out' :
                        out'[i].kind = "response" /\ out'[i].name = last'.op
            /\ last'.op \in {"variables", "evaluate"} =>
                  /\ CopiesIn(t, pending') >= CopiesIn(t, pending)
                  /\ \/ out' = <<>> /\ Joined # {}
                     \/ RepliesTo(last'.op, out')
                     \/ Len(out') = 1 /\ IsLoadCall(out'[1]) /\ Joined # {}
                  /\ (out' # <<>> /\ IsLoadCall(out'[1]) /\ out'[1].body # t.snapshotId) =>
                        /\ CopiesIn(t, pending') = CopiesIn(t, pending)
                        /\ LiveFetches(pending', out'[1].body)
                               = LiveFetches(pending, out'[1].body) + 1
            /\ (/\ last'.op \in {"loadVariables:resolved", "loadVariables:rejected"}
                /\ last'.arg.snapshotId # t.snapshotId) =>
                  /\ CopiesIn(t, pending') = CopiesIn(t, pending)
                  /\ \E u \in Joined : Joined = {u} /\ IsReady(u)
            /\ last'.op \in ContinuationOps =>
                  /\ CopiesIn(t, pending') >= CopiesIn(t, pending)
                  /\ last'.op = "variables:reply" => RepliesTo("variables", out')
                  /\ last'.op = "evaluate:reply" => RepliesTo("evaluate", out')
      ]_vars

\* a request for s2 has made its loader call while the fetch for s1 is
\* suspended and s2 is not cached
C27_Witness ==
    /\ last.op \in {"variables", "evaluate"}
    /\ Len(out) = 1 /\ IsLoadCall(out[1]) /\ out[1].body = "s2"
    /\ LiveFetches(pending, "s1") = 1
    /\ LiveFetches(pending, "s2") = 1
    /\ ~isCached(runtime, "s2")

\* the request for s2 is answered with what its fetch brought while the
\* fetch for s1 is still suspended
C27_WitnessAnswered ==
    /\ last.op = "evaluate:reply"
    /\ last.arg.snapshotId = "s2"
    /\ RepliesTo("evaluate", out)
    /\ out[1].body.node.value = Num(2)
    /\ isCached(runtime, "s2")
    /\ LiveFetches(pending, "s1") = 1
    /\ ~isCached(runtime, "s1")

\* a step request is answered while the fetch for s1 is suspended
C27_WitnessNavigation ==
    /\ last.op = "next"
    /\ \E i \in DOMAIN out : out[i].kind = "response" /\ out[i].name = "next"
    /\ LiveFetches(pending, "s1") = 1

\* a handler of that kind is suspended, at whatever await
Waiting(kind) == \E t \in BagToSet(pending) : t.kind = kind

\* the steps in which a suspended handler sends its response
AnswerOps ==
    {"launch:visible", "launch:failed", "stackTrace:reply", "variables:reply",
     "evaluate:reply"}

\* the followed request has been answered: its handler has sent the response
\* or the error response to its command and is suspended no more
FollowedAnswered ==
    /\ ~Followed
    /\ last.op \in AnswerOps
    /\ last.arg.request.followed
    /\ Count(out, LAMBDA m : IsReply(m) /\ m.name = last.arg.kind) = 1

\* C28: nothing blocks indefinitely.  When every loader call settles and the
\* continuations are scheduled fairly, every launch, stackTrace, variables
\* and evaluate request receives its response, whatever other requests
\* arrive in between.  A stackTrace request is answered in its own step or
\* is suspended; a request that is suspended, whichever it is and at
\* whatever await, is not dropped without its response, a relaunch
\* included, and is eventually answered.
C28_NothingBlocksIndefinitely ==
    /\ [](last.op = "stackTrace" =>
             (RepliesTo("stackTrace", out) \/ (out = <<>> /\ Waiting("stackTrace"))))
    /\ [][(Followed /\ ~Followed') => FollowedAnswered']_vars
    /\ (Followed ~> FollowedAnswered)

\* a followed variables request whose runtime was replaced while it was
\* suspended on loadVariables has sent its response with what the fetch
\* brought
C28_Witness ==
    /\ FollowedAnswered
    /\ last.op = "variables:reply"
    /\ runtime.exists
    /\ handlesGet(variableHandles, last.arg.request.reference).kind = "locals"
    /\ handlesGet(variableHandles, last.arg.request.reference).snapshotId = "s1"
    /\ ~isCached(runtime, "s1")
    /\ out = <<Response("variables", last.arg.variables)>>
    /\ Len(out[1].body) = 1
    /\ out[1].body[1].name = "x"

\* a followed evaluate request has sent its response after its fetch
C28_WitnessEvaluate ==
    /\ FollowedAnswered
    /\ last.op = "evaluate:reply"
    /\ "s1" \in loadedIds
    /\ out[1].body.result = "value"

\* a followed launch and a followed stackTrace request have been answered
C28_WitnessLaunch ==
    /\ FollowedAnswered
    /\ last.op = "launch:visible"
    /\ Waiting("variables")

C28_WitnessStackTrace ==
    /\ FollowedAnswered
    /\ last.op = "stackTrace:reply"
    /\ last.arg.request.hasDeemphasize

\* the node a dotted path names among the recorded locals and arguments and
\* the meta fields, NoNode when it names none: the root in locals first, then
\* arguments, then meta, every further segment among the child fields
Named(locals, args, meta, expr) ==
    LET segments == segmentsOf(expr)
        root == Head(segments)
        node == IF Lookup(locals, root) # NoNode THEN Lookup(locals, root)
                ELSE IF Lookup(args, root) # NoNode THEN Lookup(args, root)
                ELSE Lookup(meta, root)
    IN  IF segments = <<>> \/ node = NoNode THEN NoNode ELSE walk(node, Tail(segments))

\* an evaluate request that looked a dotted path up has sent its response;
\* the snapshot it looked into, and the bundle the runtime holds for it
AnsweredEvaluate ==
    /\ runtime.exists
    /\ last.op = "evaluate:reply"
    /\ Len(out) = 1
    /\ out[1].kind \in {"response", "error"}

EvaluatedSnapshot == last.arg.snapshotId

EvaluatedBundle ==
    IF EvaluatedSnapshot = NoSnap \/ ~isCached(runtime, EvaluatedSnapshot) THEN EmptyBundle
    ELSE runtime.variablesCache[EvaluatedSnapshot]

\* C29: an evaluate request on a launched session whose dotted path finds
\* nothing (unknown root name in locals, arguments and meta, or a segment
\* that is not a child field of the node reached so far) is answered with a
\* success response whose result is `not available` and variablesReference
\* 0, never with an error response; the root name is resolved in locals
\* first, then arguments, then meta.
C29_LookupMissIsNotAvailable ==
    AnsweredEvaluate =>
        LET named == Named(EvaluatedBundle.locals, EvaluatedBundle.arguments,
                           getMeta(runtime, EvaluatedSnapshot), last.arg.expr)
        IN  /\ out[1].kind = "response"
            /\ IF named = NoNode
               THEN out[1].body = NotAvailable
               ELSE out[1].body.node = named

\* C30: for every declared type (number, boolean, string and no type
\* included), coerceValue applied to the preview text `null` returns the
\* null value.
C30_NullPreviewIsNull ==
    (last.op = "coerceValue" /\ last.arg.valuePreview = Str("null")) =>
        out = <<Null>>

\* The reference of C31 as stated: no rule for the preview text `null`
StatedReference(valuePreview, type) ==
    IF valuePreview = Undef THEN type
    ELSE IF type = Str("number") /\ NumberOf(valuePreview.s) # NaN
         THEN NumberOf(valuePreview.s)
    ELSE IF type = Str("boolean") /\ valuePreview \in {Str("true"), Str("false")}
         THEN Bool(valuePreview = Str("true"))
    ELSE valuePreview

\* The same reference with the rule for `null`: a preview `null` whose
\* declared type is not `number` is the null value.
NullAwareReference(valuePreview, type) ==
    IF valuePreview = Str("null") /\ type # Str("number") THEN Null
    ELSE StatedReference(valuePreview, type)

\* C31 (as stated): coerceValue agrees on every (preview, type) pair with
\* the reference that returns the declared type for an absent preview, the
\* parsed number or else the raw text for a number-typed preview, the
\* boolean for a boolean-typed `true`/`false`, and any other preview
\* unchanged.
C31_AgreesWithStatedReference ==
    last.op = "coerceValue" =>
        out = <<StatedReference(last.arg.valuePreview, last.arg.type)>>

\* C31 (amended): coerceValue agrees on every (preview, type) pair with the
\* stated reference extended by one rule: the preview text `null` under a
\* declared type other than `number` yields the null value.
C31_AgreesWithReference ==
    last.op = "coerceValue" =>
        out = <<NullAwareReference(last.arg.valuePreview, last.arg.type)>>

\* coerceValue has turned the string-typed preview `null` into null
C31_Witness ==
    /\ last.op = "coerceValue"
    /\ last.arg = [valuePreview |-> Str("null"), type |-> Str("string")]
    /\ out = <<Null>>

\* coerceValue has kept a number-typed preview that does not parse
C31_WitnessRaw ==
    /\ last.op = "coerceValue"
    /\ last.arg = [valuePreview |-> Str("abc"), type |-> Str("number")]
    /\ out = <<Str("abc")>>

\* what a child can be shown as in a heap, an absent child included
ChildTexts(heap) == {previewChild(heap, ref) : ref \in {NoRef} \cup DOMAIN heap}

\* the previews C32 allows for a sequence-shaped node: the length is one more
\* than the largest key, three items at most, then the marker if it is longer
ClaimedPreviews(heap, fields) ==
    LET length == Largest({KeyNumber(fields[i].name) : i \in DOMAIN fields}) + 1
        marker == IF length > 3 THEN <<Ellipsis>> ELSE <<>>
    IN  { "(" \o ToString(length) \o ") [" \o Join(items \o marker, ", ") \o "]" :
              items \in [1..Min(length, 3) -> ChildTexts(heap)] }

SequenceShaped(node) ==
    /\ node.value = Undef
    /\ node.fields # <<>>
    /\ \A i \in DOMAIN node.fields : KeyNumber(node.fields[i].name) >= 0

\* C32: the preview of a sequence-shaped node (every child key a decimal
\* numeral) is `(<length>) [...]` where length is one more than the largest
\* numeric child key, not the number of children present; min(length, 3)
\* child previews are listed, followed by the ellipsis marker exactly when
\* the length exceeds 3.
C32_SequenceLengthFromLargestKey ==
    (last.op = "formatNodeValue" /\ SequenceShaped(last.arg[0])) =>
        out[1] \in ClaimedPreviews(last.arg, last.arg[0].fields)

\* the node with the keys "0" and "2" is shown with length 3
C32_Witness ==
    /\ last.op = "formatNodeValue"
    /\ KeysOf(last.arg[0].fields) = <<"0", "2">>
    /\ out = <<"(3) [1, undefined, abc]">>

\* a node with four keys is shown with three items and the marker
C32_WitnessLong ==
    /\ last.op = "formatNodeValue"
    /\ KeysOf(last.arg[0].fields) = <<"0", "1", "2", "3">>
    /\ out = <<"(4) [1, abc, 42, " \o Ellipsis \o "]">>

\* the refs the links of a node lead to
Children(node) == {node.fields[i].ref : i \in DOMAIN node.fields}
\* two heaps hold the same node 0 and the same direct children of it
SameNear(heap, other) ==
    /\ heap[0] = other[0]
    /\ \A ref \in Children(heap[0]) : heap[ref] = other[ref]
\* a link of a direct child leads back to node 0 or to the child itself
Cyclic(heap) ==
    \E ref \in Children(heap[0]) : Children(heap[ref]) \cap {0, ref} # {}

\* C33: the preview of a node depends on that node and its direct children
\* only: in any heap that holds the same node and the same direct children,
\* whatever the nodes below them are, the preview is the same text; the
\* rendering does not follow the links of a child, so it ends for a heap
\* whose links form a cycle as well.
C33_PreviewReadsOneLevel ==
    last.op = "formatNodeValue" =>
        \A cells \in PreviewHeaps :
            SameNear(last.arg, HeapOf(cells)) =>
                formatNodeValue(HeapOf(cells), 0) = out[1]

\* a node whose children link back to it and to themselves has been rendered,
\* the children as fixed summaries
C33_Witness ==
    /\ last.op = "formatNodeValue"
    /\ Cyclic(last.arg)
    /\ out = <<"{ a: {" \o Ellipsis \o "}, b: Array(1) }">>

\* a child that has children of its own below it has been rendered
C33_WitnessGrandchild ==
    /\ last.op = "formatNodeValue"
    /\ ~Cyclic(last.arg)
    /\ \E ref \in Children(last.arg[0]) : 3 \in Children(last.arg[ref])
    /\ out = <<"(3) [Array(2), undefined, {" \o Ellipsis \o "}]">>

SentIn(P(_), msgs) == \E i \in DOMAIN msgs : P(msgs[i])
Ended(rt) == rt.exists /\ isTerminated(rt)
ForwardOps == {"continue", "next", "stepIn", "stepOut"}

\* C34 (as stated), taken one step at a time: a step that follows one in
\* which a Terminated event was sent sends no Stopped event, and a runtime
\* that is terminated is terminated after the next step, whatever the
\* request is.
C34_TerminationIsFinal ==
    [][ /\ SentIn(IsTerminatedEvent, out) => ~SentIn(IsStopped, out')
        /\ Ended(runtime) => Ended(runtime') ]_vars

\* C34 (amended): termination is final for continue, next, stepIn and
\* stepOut: on a terminated runtime they leave the cursor where it is and
\* send a Terminated event and no Stopped event.  stepBack and
\* reverseContinue leave the cursor as well but send a Stopped event, and
\* restartFrame with a numeric frame id sends a Stopped event and moves the
\* cursor as setCursorByFrameId does, back onto the frame when the id is
\* known.
C34_TerminationIsFinalForForwardSteps ==
    [][ Ended(runtime) =>
          /\ last'.op \in ForwardOps =>
                /\ runtime' = runtime
                /\ SentIn(IsTerminatedEvent, out')
                /\ ~SentIn(IsStopped, out')
          /\ last'.op \in {"stepBack", "reverseContinue"} =>
                /\ runtime' = runtime
                /\ SentIn(IsStopped, out')
          /\ (last'.op = "restartFrame" /\ last'.arg # NoNum) =>
                /\ SentIn(IsStopped, out')
                /\ runtime' = setCursorByFrameId(runtime, last'.arg)
                /\ (\E i \in DOMAIN runtime.frames : runtime.frames[i].id = last'.arg)
                      => ~isTerminated(runtime') ]_vars

\* restartFrame has taken a terminated runtime back onto a recorded frame
C34_Witness ==
    /\ last.op = "restartFrame"
    /\ runtime.exists
    /\ last.before = Len(runtime.frames)
    /\ Len(runtime.frames) > 0
    /\ ~isTerminated(runtime)
    /\ SentIn(IsStopped, out)

\* next was sent to a runtime that had terminated with the next before it
C34_WitnessForward ==
    /\ last.op = "next"
    /\ nextRun = 2
    /\ Ended(runtime)
    /\ out = <<Response("next", ""), TerminatedEvent>>

\* C35: whenever a step of the session sends a Stopped or a Terminated
\* event (the steps of launch, continue, next, stepIn, stepOut, stepBack,
\* reverseContinue, restartFrame and terminate), the response to the request
\* stands before that event among the messages of the step.
C35_ResponseBeforeStopEvent ==
    \A i \in DOMAIN out :
        (IsStopped(out[i]) \/ IsTerminatedEvent(out[i])) =>
            \E j \in 1..(i - 1) : IsReply(out[j])

\* the breakpoint sets a launch would leave now: _pendingBreakpoints, which
\* holds the submissions so far, replayed into a runtime without breakpoints
LaunchedAfterwards ==
    applyPendingBreakpoints([runtime EXCEPT !.breakpoints = <<>>],
                            pendingBreakpoints).breakpoints

\* C36: for any sequence of setBreakpoints requests, several spellings of
\* one path and repeated submissions included, the breakpoint sets of a
\* runtime that was launched first and received the sequence afterwards are
\* the sets a launch leaves when the same sequence came before it.  A
\* runtime holds what its launch replayed and the submissions made since;
\* were replaying a sequence the same as submitting it, for every sequence,
\* every runtime would hold what a launch replays now.
C36_PendingBreakpointsAsIfSubmittedLater ==
    runtime.exists => runtime.breakpoints = LaunchedAfterwards

\* the snapshot a variables or evaluate request asks the recorded data of,
\* NoSnap when it asks for none
AskedSnapshot(request) ==
    IF ~runtime.exists THEN NoSnap
    ELSE IF request.op = "evaluate"
         THEN IF segmentsOf(request.arg.expr) = <<>> THEN NoSnap
              ELSE getSnapshotIdForFrame(runtime,
                       IF request.arg.frameId # NoNum THEN request.arg.frameId
                       ELSE currentFrameIndex(runtime))
    ELSE IF request.op = "variables"
         THEN LET container == handlesGet(variableHandles, request.arg)
              IN  IF container = NoContainer \/ isInactive(runtime, container)
                     \/ container.kind \notin {"locals", "arguments"}
                  THEN NoSnap ELSE container.snapshotId
    ELSE NoSnap

FailureCached(snapshotId) ==
    /\ snapshotId # NoSnap
    /\ isCached(runtime, snapshotId)
    /\ runtime.variablesCache[snapshotId] = EmptyBundle

\* C37: a failed variable load is cached like a successful one.  When the
\* loader rejects for snapshot S, the runtime that asked stores the empty
\* bundle for S; and while the cache holds it, every variables or evaluate
\* request for S goes on with the empty part of that entry, without a call
\* of the loader and without a change of the runtime, whatever the loader
\* would answer now, and is answered with no entries or `not available`.
C37_FailedLoadIsCached ==
    [][ /\ (last'.op = "loadVariables:rejected" /\ ~last'.arg.stale) =>
               /\ isCached(runtime', last'.arg.snapshotId)
               /\ runtime'.variablesCache[last'.arg.snapshotId] = EmptyBundle
        /\ (last'.op \in {"variables", "evaluate"} /\ FailureCached(AskedSnapshot(last'))) =>
               /\ out' = <<>>
               /\ runtime' = runtime
               /\ loadedIds' = loadedIds
               /\ \E t \in Joined :
                     /\ Joined = {t}
                     /\ IF last'.op = "variables"
                        THEN t.stage = "record" /\ t.record = <<>>
                        ELSE t.stage = "locals" /\ t.locals = <<>>
        /\ (last'.op = "evaluate:locals" /\ FailureCached(last'.arg.snapshotId)) =>
               /\ out' = <<>>
               /\ runtime' = runtime
               /\ loadedIds' = loadedIds
               /\ Joined = {[last'.arg EXCEPT !.stage = "arguments", !.args = <<>>]}
        /\ (last'.op = "variables:record" /\ last'.arg.record = <<>>) =>
               Joined = {Handler("variables", "reply", last'.arg.request)}
        /\ (last'.op = "variables:reply" /\ last'.arg.variables = <<>>) =>
               /\ out' = <<Response("variables", <<>>)>>
               /\ runtime' = runtime
        /\ (/\ last'.op = "evaluate:arguments"
            /\ last'.arg.locals = <<>> /\ last'.arg.args = <<>>
            /\ PlainRoot(last'.arg.expr)) =>
               \E t \in Joined : Joined = {t} /\ t.stage = "node" /\ t.node = NoNode
        /\ (last'.op = "evaluate:reply" /\ last'.arg.node = NoNode) =>
               /\ out' = <<Response("evaluate", NotAvailable)>>
               /\ runtime' = runtime ]_vars

\* a variables request for the locals of the snapshot whose load failed is
\* under way with no entries, from the cache and without the loader
C37_Witness ==
    /\ last.op = "variables"
    /\ FailureCached("s1")
    /\ handlesGet(variableHandles, last.arg) # NoContainer
    /\ handlesGet(variableHandles, last.arg).kind = "locals"
    /\ handlesGet(variableHandles, last.arg).snapshotId = "s1"
    /\ ~isInactive(runtime, handlesGet(variableHandles, last.arg))
    /\ out = <<>>
    /\ \E t \in BagToSet(pending) :
          /\ pending = SetToBag({t})
          /\ t.kind = "variables" /\ t.stage = "record" /\ t.record = <<>>

\* and it is answered with no entries
C37_WitnessAnswered ==
    /\ last.op = "variables:reply"
    /\ FailureCached("s1")
    /\ handlesGet(variableHandles, last.arg.request.reference).kind = "locals"
    /\ handlesGet(variableHandles, last.arg.request.reference).snapshotId = "s1"
    /\ getCurrentSnapshotId(runtime) = "s1"
    /\ out = <<Response("variables", <<>>)>>
    /\ pending = EmptyBag

\* the loader has just rejected and the empty bundle is in the cache
C37_WitnessRejected ==
    /\ last.op = "loadVariables:rejected"
    /\ ~last.arg.stale
    /\ FailureCached(last.arg.snapshotId)

\* the entries of a variables response are recorded data: there are some and
\* they are not the placeholder
CarriesRecorded(m) ==
    /\ m.kind = "response"
    /\ m.name = "variables"
    /\ m.body # <<>>
    /\ m.body # <<InactiveFrame>>

\* C38: a variables response that carries recorded locals or arguments of
\* snapshot S is sent only while S is the snapshot of the frame the cursor
\* is on; after next, continue or restartFrame moved the cursor away from S
\* while the handler was suspended, its response does not carry S's recorded
\* data.
C38_RecordedDataOnlyForCurrentSnapshot ==
    (/\ last.op = "variables:reply"
     /\ SentIn(CarriesRecorded, out)
     /\ handlesGet(variableHandles, last.arg.request.reference).kind
            \in {"locals", "arguments"}) =>
        /\ runtime.exists
        /\ getCurrentSnapshotId(runtime) =
               handlesGet(variableHandles, last.arg.request.reference).snapshotId

LoadCalled(snapshotId) ==
    \E i \in DOMAIN out : IsLoadCall(out[i]) /\ out[i].body = snapshotId
\* the snapshot recorded for the frame with that id, if there is such a frame
SnapshotOfFrame(frameId, snapshotId) ==
    \E i \in DOMAIN runtime.frames :
        /\ runtime.frames[i].id = frameId
        /\ runtime.frames[i].snapshotId = snapshotId

C39_WitnessNoFrameId ==
    /\ last.op = "evaluate"
    /\ last.arg.frameId = NoNum
    /\ LoadCalled("s1")
    /\ getCurrentSnapshotId(runtime) = "s2"

\* variables has called the loader for the snapshot of the cursor's frame
C39_WitnessVariables ==
    /\ last.op = "variables"
    /\ LoadCalled("s1")
    /\ getCurrentSnapshotId(runtime) = "s1"

\* the handlers that are suspended at an await before they answer
SuspendingOps == {"launch", "stackTrace", "variables", "evaluate"}
\* the command a step answers
Answers(op) ==
    IF op \in {"launch:visible", "launch:failed"} THEN "launch"
    ELSE IF op = "stackTrace:reply" THEN "stackTrace"
    ELSE IF op = "variables:reply" THEN "variables"
    ELSE IF op = "evaluate:reply" THEN "evaluate"
    ELSE op

\* C40: every request is answered with exactly one response, a success or an
\* error, in every session state.  A handler that has no await sends one
\* response to its command in its step; a handler that has one either sends
\* its response in its first step or is suspended, once; and a step in which
\* a suspended handler goes on either sends the one response of that handler
\* or leaves it suspended.  No step sends two responses.
C40_ExactlyOneResponse ==
    [][ /\ Count(out', IsReply) <= 1
        /\ \A i \in DOMAIN out' : IsReply(out'[i]) => out'[i].name = Answers(last'.op)
        /\ Count(out', IsReply) + BagCardinality(pending') =
              BagCardinality(pending) + (IF last'.op \in RequestOps THEN 1 ELSE 0)
        /\ last'.op \in (RequestOps \ SuspendingOps) => Count(out', IsReply) = 1 ]_vars

\* exceptionInfo was answered with the one error response after a failed launch
C40_Witness ==
    /\ last.op = "exceptionInfo"
    /\ launchFailed
    /\ ~runtime.exists
    /\ out = <<ErrorResponse("exceptionInfo", 3001)>>

\* a suspended evaluate handler has sent its one response after the end
C40_WitnessSuspended ==
    /\ last.op = "evaluate:reply"
    /\ "s1" \in loadedIds
    /\ runtime.exists
    /\ isTerminated(runtime)
    /\ Count(out, IsReply) = 1

\* stepIn was answered once while stopped
C40_WitnessStopped ==
    /\ last.op = "stepIn"
    /\ runtime.exists
    /\ ~isTerminated(runtime)
    /\ Count(out, IsReply) = 1

====
